---- MODULE Spec2Model ----
(***************************************************************************)
(* A model of llm-web-agent: the task-plan engine                          *)
(* (BrowserSession::execute_task_plan), the tool-calling loop              *)
(* (LlamaClient::extract_product_information, MCPClient's single-shot      *)
(* variants) and the HTTP handlers that share the session registry behind  *)
(* one tokio RwLock (lib.rs).  Each subsystem has its own specification    *)
(* over its own variables; the variables of the other subsystems stay at   *)
(* their idle values.                                                      *)
(***************************************************************************)
EXTENDS Integers, Sequences, FiniteSets, TLC

\* Option<T>: None, Some(x)
None == <<>>
Some(x) == <<x>>

\* Result<String, anyhow::Error> of one driver-backed call
Ok(v) == [ok |-> TRUE, val |-> v]
Err(m) == [ok |-> FALSE, val |-> m]

(***************************************************************************)
(* browser.rs: BrowserSession::interact.  The driver is external: for each *)
(* action kind the set of results interact can produce, one per path       *)
(* through the match arm.                                                  *)
(***************************************************************************)
ActionKinds ==
    {"Click", "Type", "Wait", "WaitForElement", "Scroll", "Screenshot",
     "GetPageSource", "ExecuteScript"}

InteractOutcomes(kind) ==
    CASE kind = "Click" ->
           {Ok("Click successful"), Err("Element not found"),
            Err("Failed to click element")}
      [] kind = "Type" ->
           {Ok("Text input successful"), Err("Element not found"),
            Err("Failed to focus element"), Err("Failed to type text")}
      [] kind = "Wait" -> {Ok("Wait completed")}
      [] kind = "WaitForElement" ->
           {Ok("Element found"), Err("Element not found within timeout")}
      [] kind = "Scroll" -> {Ok("Scrolled by"), Err("Failed to scroll")}
      [] kind = "Screenshot" ->
           {Ok("data:image/png;base64"), Err("Failed to take screenshot")}
      [] kind = "GetPageSource" ->
           {Ok("page source"), Err("Failed to get page source")}
      [] kind = "ExecuteScript" ->
           {Ok("script value"), Err("Failed to execute script")}

(***************************************************************************)
(* browser.rs: BrowserSession::execute_task_plan                           *)
(***************************************************************************)
VARIABLES
    plan,       \* plan.steps: the TaskSteps, in order
    step_i,     \* position of the `for step in &plan.steps` iterator
    results,    \* the local Vec<TaskResult>
    handed,     \* history: the step positions passed to self.interact, in order
    plan_pc,    \* "idle" | "loop" | "returned"
    plan_ret    \* the value returned: Ok(results) or an error

planVars == <<plan, step_i, results, handed, plan_pc, plan_ret>>

\* Bounds of the task-plan model
MaxPlanLen == 3
StepIds == {"a", "b"}
PlanActionKinds == {"Click", "Wait", "Screenshot"}

TaskSteps == [id : StepIds, action : PlanActionKinds]

Plans == UNION {[1..n -> TaskSteps] : n \in 0..MaxPlanLen}

\* the Ok(output) arm: TaskResult { step_id, success: true, output: Some, error: None }
TaskResultOk(step, output) ==
    [step_id |-> step.id, success |-> TRUE, output |-> Some(output),
     error |-> None]

TaskResultErr_BothSet(step, msg) ==
    [step_id |-> step.id, success |-> FALSE, output |-> Some(msg),
     error |-> Some(msg)]

\* the Err(e) arm: TaskResult { step_id, success: false, output: None, error: Some }
TaskResultErr(step, msg) ==
    [step_id |-> step.id, success |-> FALSE, output |-> None,
     error |-> Some(msg)]

PushResult_DropOnErr(rs, r) == IF r.success THEN Append(rs, r) ELSE rs

\* results.push(..) in either arm
PushResult(rs, r) == Append(rs, r)

ContinueAfterFailure_Halt == FALSE

\* the Err arm falls through to the next iteration ("Continue execution even
\* if a step fails"): there is no break, return or `?` in the loop body
ContinueAfterFailure == TRUE

PlanIdle ==
    /\ plan = <<>>
    /\ step_i = 0
    /\ results = <<>>
    /\ handed = <<>>
    /\ plan_pc = "idle"
    /\ plan_ret = None

\* entry: `let mut results = Vec::new();`
PlanEnter ==
    /\ plan \in Plans
    /\ step_i = 1
    /\ results = <<>>
    /\ handed = <<>>
    /\ plan_pc = "loop"
    /\ plan_ret = None

\* one iteration of the for loop: interact, push the TaskResult, sleep 500 ms
PlanStep ==
    /\ plan_pc = "loop"
    /\ step_i <= Len(plan)
    /\ \E out \in InteractOutcomes(plan[step_i].action) :
         LET step == plan[step_i]
             r == IF out.ok THEN TaskResultOk(step, out.val)
                            ELSE TaskResultErr(step, out.val)
         IN /\ handed' = Append(handed, step_i)
            /\ results' = PushResult(results, r)
            /\ IF out.ok \/ ContinueAfterFailure
                 THEN /\ step_i' = step_i + 1
                      /\ plan_pc' = "loop"
                      /\ plan_ret' = plan_ret
                 ELSE /\ step_i' = step_i
                      /\ plan_pc' = "returned"
                      /\ plan_ret' = Err(out.val)
    /\ UNCHANGED plan

\* the iterator is exhausted: Ok(results)
PlanReturn ==
    /\ plan_pc = "loop"
    /\ step_i > Len(plan)
    /\ plan_pc' = "returned"
    /\ plan_ret' = [ok |-> TRUE, val |-> results]
    /\ UNCHANGED <<plan, step_i, results, handed>>

(***************************************************************************)
(* llama_client.rs / mcp.rs: product extraction.  Strings are sequences    *)
(* over a small alphabet: the two braces and "n", which stands for the     *)
(* text of a JSON member "name": "N"; "s", "u" and "r" stand for the       *)
(* system prompt, the user prompt and a tool result.                       *)
(***************************************************************************)
Chars == {"{", "}", "n"}

\* Bounds of the product-extraction model
MaxContentLen == 3
MaxToolCalls == 2

Contents == UNION {[1..n -> Chars] : n \in 0..MaxContentLen}

\* str::find / str::rfind: 0 stands for Option::None
Find(c, ch) ==
    IF \E i \in 1..Len(c) : c[i] = ch
      THEN CHOOSE i \in 1..Len(c) : c[i] = ch /\ \A j \in 1..(i - 1) : c[j] # ch
      ELSE 0

RFind(c, ch) ==
    IF \E i \in 1..Len(c) : c[i] = ch
      THEN CHOOSE i \in 1..Len(c) : c[i] = ch /\ \A j \in (i + 1)..Len(c) : c[j] # ch
      ELSE 0

\* &content[start..=end] panics when start > end + 1
SlicePanics(start, end) == start > end + 1

\* serde_json::from_str::<Value> on the slice: the JSON objects of the alphabet
ValidJson == {<<"{", "}">>, <<"{", "n", "}">>}

\* parsed.get("name").and_then(|v| v.as_str())
JsonName(js) == IF \E i \in 1..Len(js) : js[i] = "n" THEN Some("N") ELSE None

ProductFields ==
    {"name", "description", "price", "availability", "brand", "rating",
     "image_url", "raw_data", "raw_llm_response"}

\* llama_client.rs parse_final_product_response, JSON branch (the members
\* other than "name" have no text in the alphabet)
ProductFromJson(js, content) ==
    [name |-> JsonName(js), description |-> None, price |-> None,
     availability |-> None, brand |-> None, rating |-> None,
     image_url |-> None, raw_data |-> Some(content),
     raw_llm_response |-> Some(content)]

parse_text_response_NoRaw(content) ==
    [name |-> None, description |-> None, price |-> None,
     availability |-> None, brand |-> None, rating |-> None,
     image_url |-> None, raw_data |-> Some(content),
     raw_llm_response |-> None]

\* llama_client.rs parse_text_response: no line of the alphabet holds a
\* `label:` pattern, so every labelled field stays None
parse_text_response(content) ==
    [name |-> None, description |-> None, price |-> None,
     availability |-> None, brand |-> None, rating |-> None,
     image_url |-> None, raw_data |-> Some(content),
     raw_llm_response |-> Some(content)]

Panic == [ok |-> FALSE, val |-> "panic"]

\* llama_client.rs parse_final_product_response
parse_final_product_response(content) ==
    LET start == Find(content, "{")
        end == RFind(content, "}")
    IN IF start # 0 /\ end # 0
         THEN IF SlicePanics(start, end) THEN Panic
              ELSE LET js == SubSeq(content, start, end)
                   IN IF js \in ValidJson THEN Ok(ProductFromJson(js, content))
                      ELSE Ok(parse_text_response(content))
         ELSE Ok(parse_text_response(content))

\* llama_client.rs create_fallback_product_info
create_fallback_product_info ==
    [name |-> Some("Unable to extract product name with MCP tools"),
     description |->
         Some("Product information extraction failed using Llama + MCP"),
     price |-> None, availability |-> None, brand |-> None, rating |-> None,
     image_url |-> None, raw_data |-> None,
     raw_llm_response |-> Some("Fallback mode - MCP extraction failed")]

\* mcp.rs MCPClient::create_fallback_product_info
mcp_create_fallback_product_info ==
    [name |-> Some("Unable to extract product name"),
     description |-> Some("Product information extraction failed"),
     price |-> None, availability |-> None, brand |-> None, rating |-> None,
     image_url |-> None, raw_data |-> None,
     raw_llm_response |-> Some("No LLM response available (fallback mode)")]

\* mcp.rs parse_product_info_from_ollama / parse_product_info_from_mistral
\* (content = None also stands for an empty `choices`)
mcp_parse_product_info(content_opt) ==
    IF content_opt = None THEN Ok(mcp_create_fallback_product_info)
    ELSE LET content == content_opt[1]
             start == Find(content, "{")
             end == RFind(content, "}")
         IN IF start # 0 /\ end # 0
              THEN IF SlicePanics(start, end) THEN Panic
                   ELSE LET js == SubSeq(content, start, end)
                        IN IF js \in ValidJson
                             THEN Ok(ProductFromJson(js, content))
                             ELSE Ok(mcp_create_fallback_product_info)
              ELSE Ok(mcp_create_fallback_product_info)

VARIABLES
    loop_pc,             \* "idle" | "manifest" | "llm" | "tools" | "mcp" | "done"
    messages,            \* the conversation: Vec<Message>
    conversation_turns,  \* the local counter of the while loop
    cur_resp,            \* the OllamaResponse being processed
    tc_i,                \* position of `for tool_call in tool_calls`
    llm_calls,           \* history: number of call_llama_with_tools calls
    manifest_fetches,    \* history: number of get_mcp_tools calls
    tool_log,            \* history: tool calls sent to the tool server, each
                         \* with its position in the response's list
    llm_reply,           \* history: what the last call_llama_with_tools gave,
                         \* None before the first call and once a tool ran
    loop_ret             \* the value returned to the caller

loopVars ==
    <<loop_pc, messages, conversation_turns, cur_resp, tc_i, llm_calls,
      manifest_fetches, tool_log, llm_reply, loop_ret>>

\* `let max_turns = 5;`
max_turns == 5

ToolNames == {"extract_product_data"}

ToolCallLists == UNION {[1..n -> ToolNames] : n \in 0..MaxToolCalls}

\* ResponseMessage { content, tool_calls } as the backend can answer
LlmResponses ==
    [tool_calls : {Some(l) : l \in ToolCallLists},
     content : {None, Some(<<"n">>)}]
      \cup [tool_calls : {None},
            content : {Some(c) : c \in Contents} \cup {None}]

NoResponse == [tool_calls |-> None, content |-> None]

\* call_llama_with_tools: the transport fails, the status is not a success,
\* the body does not parse, or a response arrives
LlmOutcomes ==
    {Err("Failed to call Ollama"), Err("Ollama API error"),
     Err("Failed to parse Ollama response")}
      \cup {Ok(r) : r \in LlmResponses}

\* execute_mcp_tool once the request is posted
ToolOutcomes ==
    {Ok("tool result"), Err("Failed to call MCP tool"),
     Err("Failed to parse MCP response"), Err("MCP tool error"),
     Err("No result from MCP tool")}

\* get_mcp_tools
ManifestOutcomes ==
    {Ok("tools"), Err("Failed to fetch MCP manifest"),
     Err("Failed to parse MCP manifest")}

Message(role, content, tool_calls) ==
    [role |-> role, content |-> content, tool_calls |-> tool_calls]

SeedMessages ==
    <<Message("system", <<"s">>, None), Message("user", <<"u">>, None)>>

TurnsAfterToolCalls_NoCount(t) == t

\* `conversation_turns += 1;`
TurnsAfterToolCalls(t) == t + 1

LoopDone(ret) ==
    /\ loop_pc' = "done"
    /\ loop_ret' = ret

LoopIdle ==
    /\ loop_pc = "idle"
    /\ messages = <<>>
    /\ conversation_turns = 0
    /\ cur_resp = NoResponse
    /\ tc_i = 0
    /\ llm_calls = 0
    /\ manifest_fetches = 0
    /\ tool_log = <<>>
    /\ llm_reply = None
    /\ loop_ret = None

\* LlamaClient::extract_product_information is entered
LlamaEnter ==
    /\ loop_pc = "manifest"
    /\ messages = <<>>
    /\ conversation_turns = 0
    /\ cur_resp = NoResponse
    /\ tc_i = 0
    /\ llm_calls = 0
    /\ manifest_fetches = 0
    /\ tool_log = <<>>
    /\ llm_reply = None
    /\ loop_ret = None

ManifestFailed_Retry(out) == UNCHANGED <<loop_pc, loop_ret>>

\* the `?` on get_mcp_tools: the error is the run's result
ManifestFailed(out) == LoopDone(out)

\* `let tools = self.get_mcp_tools().await?;` then the seed conversation
GetMcpTools ==
    /\ loop_pc = "manifest"
    /\ manifest_fetches' = manifest_fetches + 1
    /\ \E out \in ManifestOutcomes :
         IF out.ok
           THEN /\ messages' = SeedMessages
                /\ loop_pc' = "llm"
                /\ UNCHANGED loop_ret
           ELSE /\ ManifestFailed(out)
                /\ UNCHANGED messages
    /\ UNCHANGED <<conversation_turns, cur_resp, tc_i, llm_calls, tool_log,
                    llm_reply>>

\* one pass of `while conversation_turns < max_turns` up to the first await
\* inside the tool-call loop
CallLlama ==
    /\ loop_pc = "llm"
    /\ conversation_turns < max_turns
    /\ llm_calls' = llm_calls + 1
    /\ \E out \in LlmOutcomes :
         /\ llm_reply' = Some(out)
         /\ IF ~out.ok
              THEN /\ LoopDone(out)
                   /\ UNCHANGED <<conversation_turns, cur_resp, tc_i>>
              ELSE LET resp == out.val
                   IN IF resp.tool_calls # None
                        THEN IF Len(resp.tool_calls[1]) = 0
                               THEN /\ conversation_turns' =
                                         TurnsAfterToolCalls(conversation_turns)
                                    /\ UNCHANGED <<loop_pc, loop_ret, cur_resp, tc_i>>
                               ELSE /\ cur_resp' = resp
                                    /\ tc_i' = 1
                                    /\ loop_pc' = "tools"
                                    /\ UNCHANGED <<conversation_turns, loop_ret>>
                        ELSE IF resp.content # None
                               THEN /\ LoopDone(parse_final_product_response(resp.content[1]))
                                    /\ UNCHANGED <<conversation_turns, cur_resp, tc_i>>
                               ELSE \* `break`, then the fallback after the loop
                                    /\ LoopDone(Ok(create_fallback_product_info))
                                    /\ UNCHANGED <<conversation_turns, cur_resp, tc_i>>
    /\ UNCHANGED <<messages, tool_log, manifest_fetches>>

ToolCallAt_Reversed(calls, i) ==
    [name |-> calls[Len(calls) + 1 - i], pos |-> Len(calls) + 1 - i]

\* the i-th item of `for tool_call in tool_calls`
ToolCallAt(calls, i) == [name |-> calls[i], pos |-> i]

PushToolMessages_Replace(msgs, resp, call, result) ==
    SeedMessages \o
      <<Message("assistant",
                IF resp.content = None THEN <<>> ELSE resp.content[1],
                Some(<<call.name>>)),
        Message("tool", result, None)>>

\* the two `messages.push` of one iteration: the assistant message that
\* carries this one tool call, then the tool-role message with its result
PushToolMessages(msgs, resp, call, result) ==
    msgs \o
      <<Message("assistant",
                IF resp.content = None THEN <<>> ELSE resp.content[1],
                Some(<<call.name>>)),
        Message("tool", result, None)>>

\* one iteration of `for tool_call in tool_calls`
ExecuteMcpTool ==
    /\ loop_pc = "tools"
    /\ \E out \in ToolOutcomes \cup {Panic} :
         \* the arguments of a call that are JSON but neither an object nor
         \* null panic before anything is posted
         /\ tool_log' =
              IF out = Panic THEN tool_log
              ELSE Append(tool_log, ToolCallAt(cur_resp.tool_calls[1], tc_i))
         /\ IF ~out.ok
              THEN /\ LoopDone(out)
                   /\ UNCHANGED <<messages, conversation_turns, cur_resp, tc_i>>
              ELSE /\ messages' =
                        PushToolMessages(messages, cur_resp,
                                         ToolCallAt(cur_resp.tool_calls[1], tc_i),
                                         <<"r">>)
                   /\ IF tc_i < Len(cur_resp.tool_calls[1])
                        THEN /\ tc_i' = tc_i + 1
                             /\ UNCHANGED <<loop_pc, conversation_turns, cur_resp>>
                        ELSE /\ tc_i' = 0
                             /\ cur_resp' = NoResponse
                             /\ loop_pc' = "llm"
                             /\ conversation_turns' =
                                  TurnsAfterToolCalls(conversation_turns)
                   /\ UNCHANGED loop_ret
    /\ llm_reply' = None
    /\ UNCHANGED <<llm_calls, manifest_fetches>>

LoopFallback_Err == LoopDone(Err("turn limit reached"))

\* the while condition fails: `Ok(self.create_fallback_product_info())`
LoopFallback == LoopDone(Ok(create_fallback_product_info))

LoopExhausted ==
    /\ loop_pc = "llm"
    /\ conversation_turns >= max_turns
    /\ LoopFallback
    /\ UNCHANGED <<messages, conversation_turns, cur_resp, tc_i, llm_calls, tool_log,
                    llm_reply, manifest_fetches>>

\* mcp.rs MCPClient::extract_product_information: one request, no loop
McpModes == {"Local", "Cloud"}

McpHttpOutcomes ==
    {Err("send failed"), Err("status not success"), Err("body not parsed")}
      \cup {Ok(c) : c \in {Some(x) : x \in Contents} \cup {None}}

\* extract_with_local_ollama
extract_with_local_ollama(http) ==
    IF ~http.ok
      THEN Ok(mcp_create_fallback_product_info)
      ELSE mcp_parse_product_info(http.val)

\* extract_with_cloud_api
extract_with_cloud_api(api_key, http) ==
    IF ~api_key THEN Ok(mcp_create_fallback_product_info)
    ELSE IF ~http.ok
           THEN IF http.val = "status not success"
                  THEN Ok(mcp_create_fallback_product_info)
                  ELSE http
           ELSE mcp_parse_product_info(http.val)

McpEnter ==
    /\ loop_pc = "mcp"
    /\ messages = <<>>
    /\ conversation_turns = 0
    /\ cur_resp = NoResponse
    /\ tc_i = 0
    /\ llm_calls = 0
    /\ manifest_fetches = 0
    /\ tool_log = <<>>
    /\ llm_reply = None
    /\ loop_ret = None

McpExtract ==
    /\ loop_pc = "mcp"
    /\ \E mode \in McpModes, api_key \in BOOLEAN, http \in McpHttpOutcomes :
         /\ llm_calls' = IF mode = "Cloud" /\ ~api_key THEN 0 ELSE 1
         /\ LoopDone(IF mode = "Local" THEN extract_with_local_ollama(http)
                     ELSE extract_with_cloud_api(api_key, http))
    /\ UNCHANGED <<messages, conversation_turns, cur_resp, tc_i, tool_log,
                    llm_reply, manifest_fetches>>

(***************************************************************************)
(* lib.rs: the HTTP handlers over AppState.browser_sessions, an             *)
(* Arc<RwLock<HashMap<String, BrowserSession>>>.  tokio's RwLock is fair:   *)
(* tasks that wait for it are served first-in, first-out, a writer excludes *)
(* everyone, readers share.  A slot is one in-flight HTTP request.          *)
(***************************************************************************)
VARIABLES
    sessions,      \* the keys of the HashMap
    returned,      \* history: the ids successful creates have returned
    next_id,       \* the next Uuid::new_v4(): ids are never reused
    lock_writer,   \* slot holding the write guard, 0 when none
    lock_readers,  \* slots holding a read guard
    lock_queue,    \* slots waiting in .read().await / .write().await, FIFO
    req,           \* slot -> the request it serves and the handler's position
    resp           \* the HTTP response the last step sent, NoResp when it sent none

srvVars ==
    <<sessions, returned, next_id, lock_writer, lock_readers, lock_queue, req,
      resp>>

\* Bounds of the server model
NSlots == 2
MaxSessions == 2
MaxSrvPlanLen == 2

Slots == 1..NSlots

\* a session id no create ever returned ("invalid-session-id")
Ghost == 0

RequestKinds ==
    {"create", "delete", "cleanup", "health", "status", "navigate",
     "interact", "extract", "automation", "product", "product_temp"}

IdleReq == [kind |-> "none", sid |-> Ghost, pc |-> "idle", left |-> 0]

LockMode_AllRead(kind) == "read"

\* which guard the handler takes: .read().await in get_browser_session,
\* extract_page_data and health_check, .write().await in every other handler
LockMode(kind) ==
    IF kind \in {"status", "extract", "health"} THEN "read" ELSE "write"

CanGrant_Always(mode) == TRUE

\* tokio::sync::RwLock: a write guard needs the lock free, a read guard needs
\* no writer
CanGrant(mode) ==
    IF mode = "write" THEN lock_writer = 0 /\ lock_readers = {}
    ELSE lock_writer = 0

Grantable_Any(q) == {q[i] : i \in 1..Len(q)}

\* tokio::sync::RwLock: "fairness is ensured using a first-in, first-out
\* queue for the tasks awaiting the lock"
Grantable(q) == IF q = <<>> THEN {} ELSE {Head(q)}

Remove(q, r) == SelectSeq(q, LAMBDA x : x # r)

\* types.rs: impl IntoResponse for AppError
StatusOf_NotFoundAsBadRequest(err_kind) ==
    CASE err_kind = "BrowserError" -> 400
      [] err_kind = "SessionNotFound" -> 400
      [] err_kind = "MCPError" -> 500
      [] err_kind = "SerializationError" -> 400
      [] err_kind = "InternalError" -> 500

StatusOf(err_kind) ==
    CASE err_kind = "BrowserError" -> 400
      [] err_kind = "SessionNotFound" -> 404
      [] err_kind = "MCPError" -> 500
      [] err_kind = "SerializationError" -> 400
      [] err_kind = "InternalError" -> 500

ErrorMessage(err_kind, arg) ==
    CASE err_kind = "SessionNotFound" -> <<"Session", arg, "not found">>
      [] err_kind = "SerializationError" -> <<"Serialization error:", arg>>
      [] OTHER -> <<arg>>

\* (status, Json({"error": .., "status": ..}))
IntoResponse(err_kind, arg) ==
    [status |-> StatusOf(err_kind),
     error |-> Some(ErrorMessage(err_kind, arg)),
     body_status |-> StatusOf(err_kind),
     count |-> None,
     session_id |-> None]

\* Ok(Json(..)): HTTP 200, no error envelope
OkResponse ==
    [status |-> 200, error |-> None, body_status |-> 0, count |-> None,
     session_id |-> None]

\* Json(CreateSessionResponse { session_id })
CreateResponse(sid) == [OkResponse EXCEPT !.session_id = Some(sid)]

\* health_check's "active_sessions", cleanup_all_sessions' cleaned_count
CountResponse(n) == [OkResponse EXCEPT !.count = Some(n)]

\* no response leaves the server in this step
NoResp ==
    [status |-> 0, error |-> None, body_status |-> 0, count |-> None,
     session_id |-> None]

SessionNotFound(sid) == IntoResponse("SessionNotFound", ToString(sid))

\* the handler returns: the response goes out and the guard, if held, drops
Respond(r, response) ==
    /\ resp' = response
    /\ req' = [req EXCEPT ![r] = IdleReq]

Release_Keep(r) == UNCHANGED <<lock_writer, lock_readers>>

\* the guard is dropped
Release(r) ==
    /\ lock_writer' = IF lock_writer = r THEN 0 ELSE lock_writer
    /\ lock_readers' = lock_readers \ {r}

StartWaiting(r, rq) ==
    /\ req' = [req EXCEPT ![r] = [rq EXCEPT !.pc = "waiting"]]
    /\ lock_queue' = Append(lock_queue, r)

SrvIdle ==
    /\ sessions = {}
    /\ returned = {}
    /\ next_id = 1
    /\ lock_writer = 0
    /\ lock_readers = {}
    /\ lock_queue = <<>>
    /\ req = [r \in Slots |-> IdleReq]
    /\ resp = NoResp

\* run_server: `browser_sessions: Arc::new(RwLock::new(HashMap::new()))`
SrvInit == SrvIdle

\* the session ids a client names when its request arrives: one a create
\* returned and that is still registered, or one that no create ever returned.
\* A request for an id that was removed is one that named it while it was
\* registered and reaches its lookup after the removal.
ClientSids == sessions \cup {Ghost}

Registers_Temporary(kind) == kind \in {"create", "product_temp"}

\* which handler inserts the BrowserSession it created into the registry:
\* create_browser_session does, extract_product_information keeps its
\* temporary session in a local
Registers(kind) == kind = "create"

SessionCount_Zero(m) == 0

\* sessions.len()
SessionCount(m) == Cardinality(m)

RemoveEntry_Clear(m, id) == {}

\* HashMap::remove(&session_id)
RemoveEntry(m, id) == m \ {id}

NewUuid_Reused(n) == 1

\* Uuid::new_v4(): the n-th draw is a value no earlier draw produced
NewUuid(n) == n

\* cleanup_all_sessions and health_check take no session id
NamedSids(kind) ==
    IF kind \in {"cleanup", "health"} THEN {Ghost} ELSE ClientSids

\* a request reaches its handler.  create, and product extraction without a
\* session_id, draw a Uuid first and then await BrowserSession::new;
\* automation awaits the planner first; every other handler goes straight to
\* the lock.
Arrive(r) ==
    /\ req[r].pc = "idle"
    /\ \E kind \in RequestKinds :
         IF kind \in {"create", "product_temp"}
           THEN /\ next_id <= MaxSessions
                /\ next_id' = next_id + 1
                /\ req' = [req EXCEPT ![r] =
                             [kind |-> kind, sid |-> NewUuid(next_id),
                              pc |-> "new",
                              left |-> 0]]
                /\ UNCHANGED lock_queue
           ELSE \E sid \in NamedSids(kind) :
                  /\ UNCHANGED next_id
                  /\ IF kind = "automation"
                       THEN /\ req' = [req EXCEPT ![r] =
                                         [kind |-> kind, sid |-> sid,
                                          pc |-> "planning", left |-> 0]]
                            /\ UNCHANGED lock_queue
                       ELSE StartWaiting(r, [kind |-> kind, sid |-> sid,
                                             pc |-> "idle", left |-> 0])
    /\ resp' = NoResp
    /\ UNCHANGED <<sessions, returned, lock_writer, lock_readers>>

\* create_browser_session, extract_product_information without session_id:
\* BrowserSession::new().await returns
NewDone(r) ==
    /\ req[r].pc = "new"
    /\ \E ok \in BOOLEAN :
         IF ~ok
           THEN /\ Respond(r, IntoResponse("BrowserError", "Failed to create new page after retry"))
                /\ UNCHANGED lock_queue
           ELSE IF Registers(req[r].kind)
                  THEN /\ StartWaiting(r, req[r])
                       /\ resp' = NoResp
                  ELSE \* the temporary session: navigate, then GetPageSource
                       /\ req' = [req EXCEPT ![r].pc = "temp", ![r].left = 2]
                       /\ resp' = NoResp
                       /\ UNCHANGED lock_queue
    /\ UNCHANGED <<sessions, returned, next_id, lock_writer, lock_readers>>

\* execute_automation_task: process_automation_request(&request).await returns
PlanningDone(r) ==
    /\ req[r].pc = "planning"
    /\ \/ /\ Respond(r, IntoResponse("MCPError", "Failed to send request to Mistral"))
          /\ UNCHANGED lock_queue
       \/ /\ StartWaiting(r, req[r])
          /\ resp' = NoResp
    /\ UNCHANGED <<sessions, returned, next_id, lock_writer, lock_readers>>

\* how many page calls the handler awaits under the guard: one per step of
\* the task plan the planner returned (the plan is only looked at here, so its
\* length is drawn here), navigate and GetPageSource for product extraction,
\* one for navigate, interact and extract
PageCalls(kind) ==
    CASE kind = "automation" -> 0..MaxSrvPlanLen
      [] kind = "product" -> {2}
      [] OTHER -> {1}

\* the guard is granted and the handler runs up to its first await or its
\* return.  create, delete and status finish under the guard without
\* awaiting; the others look the session up and start the page call.
Acquire(r) ==
    /\ req[r].pc = "waiting"
    /\ r \in Grantable(lock_queue)
    /\ CanGrant(LockMode(req[r].kind))
    /\ lock_queue' = Remove(lock_queue, r)
    /\ LET kind == req[r].kind
           sid == req[r].sid
       IN CASE Registers(kind) ->
                 /\ sessions' = sessions \cup {sid}
                 /\ Respond(r, CreateResponse(sid))
                 /\ UNCHANGED <<lock_writer, lock_readers>>
            [] kind = "delete" ->
                 /\ sessions' = RemoveEntry(sessions, sid)
                 /\ Respond(r, IF sid \in sessions THEN OkResponse
                               ELSE SessionNotFound(sid))
                 /\ UNCHANGED <<lock_writer, lock_readers>>
            [] kind = "cleanup" ->
                 /\ sessions' = {}
                 /\ Respond(r, CountResponse(SessionCount(sessions)))
                 /\ UNCHANGED <<lock_writer, lock_readers>>
            [] kind = "health" ->
                 /\ Respond(r, CountResponse(SessionCount(sessions)))
                 /\ UNCHANGED <<sessions, lock_writer, lock_readers>>
            [] kind = "status" ->
                 /\ Respond(r, IF sid \in sessions THEN OkResponse
                               ELSE SessionNotFound(sid))
                 /\ UNCHANGED <<sessions, lock_writer, lock_readers>>
            [] OTHER ->
                 /\ UNCHANGED sessions
                 /\ IF sid \notin sessions
                      THEN /\ Respond(r, SessionNotFound(sid))
                           /\ UNCHANGED <<lock_writer, lock_readers>>
                      ELSE \E n \in PageCalls(kind) :
                           IF n = 0
                             THEN \* an empty plan: Ok(results) with no await
                                  /\ Respond(r, OkResponse)
                                  /\ UNCHANGED <<lock_writer, lock_readers>>
                             ELSE /\ req' = [req EXCEPT ![r] =
                                      [@ EXCEPT !.pc = "exec", !.left = n]]
                                  /\ IF LockMode(kind) = "write"
                                       THEN /\ lock_writer' = r
                                            /\ UNCHANGED lock_readers
                                       ELSE /\ lock_readers' = lock_readers \cup {r}
                                            /\ UNCHANGED lock_writer
                                  /\ resp' = NoResp
    /\ returned' = IF Registers(req[r].kind) THEN returned \cup {req[r].sid}
                   ELSE returned
    /\ UNCHANGED next_id

\* the page call the handler awaits under the guard returns
ExecDone(r) ==
    /\ req[r].pc = "exec"
    /\ LET kind == req[r].kind
       IN \E ok \in BOOLEAN :
            CASE kind \in {"navigate", "interact", "extract"} ->
                   /\ Respond(r, IF ok THEN OkResponse
                                 ELSE IntoResponse("BrowserError", "driver error"))
                   /\ Release(r)
              [] kind = "automation" ->
                   \* execute_task_plan: a step's failure is recorded, not returned
                   IF req[r].left > 1
                     THEN /\ req' = [req EXCEPT ![r].left = @ - 1]
                          /\ resp' = NoResp
                          /\ UNCHANGED <<lock_writer, lock_readers>>
                     ELSE /\ Respond(r, OkResponse)
                          /\ Release(r)
              [] kind = "product" ->
                   \* navigate, sleep, interact(GetPageSource); then the guard
                   \* drops at the end of the `if` block
                   IF ~ok
                     THEN /\ Respond(r, IntoResponse("BrowserError", "driver error"))
                          /\ Release(r)
                     ELSE IF req[r].left > 1
                            THEN /\ req' = [req EXCEPT ![r].left = @ - 1]
                                 /\ resp' = NoResp
                                 /\ UNCHANGED <<lock_writer, lock_readers>>
                            ELSE /\ req' = [req EXCEPT ![r].pc = "llm", ![r].left = 0]
                                 /\ Release(r)
                                 /\ resp' = NoResp
    /\ UNCHANGED <<sessions, returned, next_id, lock_queue>>

\* extract_product_information without session_id: a page call on the
\* temporary session returns; no guard is taken on this path
TempDone(r) ==
    /\ req[r].pc = "temp"
    /\ \E ok \in BOOLEAN :
         IF ~ok
           THEN Respond(r, IntoResponse("BrowserError", "driver error"))
           ELSE /\ req' = [req EXCEPT ![r].pc = IF req[r].left > 1 THEN "temp"
                                                 ELSE "llm",
                                      ![r].left = @ - 1]
                /\ resp' = NoResp
    /\ UNCHANGED <<sessions, returned, next_id, lock_writer, lock_readers, lock_queue>>

\* extract_product_information: mcp_client.extract_product_information returns
LlmDone(r) ==
    /\ req[r].pc = "llm"
    /\ \E ok \in BOOLEAN :
         Respond(r, IF ok THEN OkResponse
                    ELSE IntoResponse("MCPError", "Failed to send request to Mistral"))
    /\ UNCHANGED <<sessions, returned, next_id, lock_writer, lock_readers, lock_queue>>

(***************************************************************************)
(* mcp_server.rs: the JSON-RPC tool server.  A text is a sequence of        *)
(* characters; an HTML document is abstracted to what the tools read from   *)
(* it: for each CSS selector the elements it matches, in document order,    *)
(* and the contents of its application/ld+json script elements.             *)
(***************************************************************************)

\* Bounds of the tool-server model
MaxMatches == 3
MaxScripts == 1

RECURSIVE TrimStart(_)
TrimStart(t) == IF t # <<>> /\ Head(t) = " " THEN TrimStart(Tail(t)) ELSE t

RECURSIVE TrimEnd(_)
TrimEnd(t) ==
    IF t # <<>> /\ t[Len(t)] = " " THEN TrimEnd(SubSeq(t, 1, Len(t) - 1))
    ELSE t

\* str::trim
Trim(t) == TrimEnd(TrimStart(t))

\* raw element texts: empty, blank, plain, with leading and with trailing space
Texts == {<<>>, <<" ">>, <<"a">>, <<" ", "a">>, <<"b", " ">>}

\* an element: its joined text nodes and its src attribute
TextElements == [text : Texts, src : {None}]

ImageElements == [text : {<<>>}, src : {None, Some(<<>>), Some(<<"u">>)}]

SeqsUpTo(S, n) == UNION {[1..k -> S] : k \in 0..n}

\* serde_json::Value, as far as the tools look into it: strings, numbers,
\* null, arrays, and objects of which only the member "name" is read
JStr(x) == [t |-> "string", v |-> x, items |-> <<>>]

JNum(x) == [t |-> "number", v |-> x, items |-> <<>>]

JNull == [t |-> "null", v |-> <<>>, items |-> <<>>]

JArr(xs) == [t |-> "array", v |-> <<>>, items |-> xs]

JObj(name_opt) == [t |-> "object", v |-> <<>>, items |-> name_opt]

\* Value::get("name")
GetName(val) ==
    IF val.t = "object" /\ val.items # <<>> THEN Some(val.items[1]) ELSE None

\* document.select(&selector): the matched elements in document order
Select(document, selector_str) ==
    IF selector_str \in DOMAIN document.elements
      THEN document.elements[selector_str]
      ELSE <<>>

\* the selector argument values of the model: a non-string JSON value reads
\* as "" (as_str().unwrap_or("")), and "" is not a selector
NotAString == "<number>"

\* Selector::parse(selector_str).is_ok()
SelectorParses(selector_str) == selector_str \notin {"", NotAString}

AsStrOrEmpty(val) == IF val = NotAString THEN "" ELSE val

\* element.text().collect::<Vec<_>>().join(" ").trim().to_string()
ElementText(element) == Trim(element.text)

\* the non-empty trimmed texts of the elements, in document order
NonEmptyTexts(elements) ==
    SelectSeq([i \in 1..Len(elements) |-> ElementText(elements[i])],
              LAMBDA x : x # <<>>)

\* a value of the `results` object: json!(values[0]) or json!(values)
ScalarOrArray(values) ==
    [is_array |-> Len(values) # 1, items |-> values]

SelectorKeys == {"k1", "k2"}

\* extract_by_selectors, after its two parameter checks: key -> entry, None
\* where `results` has no such key
BySelectorsResults(document, selectors) ==
    [key \in SelectorKeys |->
        IF key \in DOMAIN selectors
           /\ SelectorParses(AsStrOrEmpty(selectors[key]))
          THEN Some(ScalarOrArray(
                   NonEmptyTexts(Select(document,
                                        AsStrOrEmpty(selectors[key])))))
          ELSE None]

\* the `arguments` value of a tools/call: the members the tools read
NoArguments == [html_content |-> None, selectors |-> None, url |-> None]

extract_by_selectors(arguments) ==
    IF arguments.html_content = None
      THEN Err("Missing html_content parameter")
    ELSE IF arguments.selectors = None
      THEN Err("Missing selectors parameter")
    ELSE Ok([tool |-> "extract_by_selectors",
             results |-> BySelectorsResults(arguments.html_content[1],
                                            arguments.selectors[1])])

\* extract_product_data: the `product_selectors` table
ProductSelectorFields ==
    <<"name", "price", "description", "availability", "brand", "rating",
      "image">>

product_selectors ==
    [name |-> <<"#productTitle", "h1.a-size-large", ".product-title">>,
     price |-> <<"[data-testid='price']", ".a-price-whole", ".price",
                 ".current-price", "[data-price]">>,
     description |-> <<"[data-feature-name='productDescription']",
                       ".product-description", "#description">>,
     availability |-> <<"#availability span", ".availability",
                        "#stock-status">>,
     brand |-> <<"[data-testid='brand']", ".brand", "#brand">>,
     rating |-> <<"[data-testid='rating']", ".a-icon-alt", ".rating",
                  ".star-rating">>,
     image |-> <<"[data-testid='image']", "#landingImage",
                 ".product-image img", ".main-image img">>]

\* the keys `product_data` can get: the table's fields and the keys
\* extract_product_from_jsonld writes
ProductDataKeys ==
    {"name", "price", "description", "availability", "brand", "rating",
     "image", "image_url"}

\* the value an element contributes to `field`
ElementValue(field, element) ==
    IF field = "image"
      THEN (IF element.src = None THEN <<>> ELSE element.src[1])
      ELSE ElementText(element)

\* the first non-empty value among the elements one selector matches
RECURSIVE FirstNonEmpty(_, _)
FirstNonEmpty(field, elements) ==
    IF elements = <<>> THEN None
    ELSE IF ElementValue(field, Head(elements)) # <<>>
      THEN Some(JStr(ElementValue(field, Head(elements))))
    ELSE FirstNonEmpty(field, Tail(elements))

\* the selectors of one field are tried in table order until one gave a value
RECURSIVE FirstSelectorValue(_, _, _)
FirstSelectorValue(document, field, selectors) ==
    IF selectors = <<>> THEN None
    ELSE IF ~SelectorParses(Head(selectors))
      THEN FirstSelectorValue(document, field, Tail(selectors))
    ELSE LET found == FirstNonEmpty(field, Select(document, Head(selectors)))
         IN IF found # None THEN found
            ELSE FirstSelectorValue(document, field, Tail(selectors))

\* `product_data` after the selector loop: key -> value, None where absent
SelectorData(document) ==
    [key \in ProductDataKeys |->
        IF key \in DOMAIN product_selectors
          THEN FirstSelectorValue(document, key, product_selectors[key])
          ELSE None]

\* a JSON-LD item without members
EmptyItem ==
    [type |-> None, name |-> None, description |-> None, brand |-> None,
     offers |-> None, aggregateRating |-> None, image |-> None]

NoOffers == [price |-> None, availability |-> None]

NoRating == [ratingValue |-> None]

\* the `product` object one Product item yields: key -> value, None where
\* the key is not set
ProductOfItem(item) ==
    [key \in ProductDataKeys |->
        CASE key = "name" -> item.name
          [] key = "description" -> item.description
          [] key = "brand" ->
               IF item.brand = None THEN None
               ELSE IF item.brand[1].t = "string" THEN item.brand
               ELSE IF GetName(item.brand[1]) # None
                 THEN GetName(item.brand[1])
               ELSE Some(JNull)
          [] key = "price" ->
               IF item.offers = None THEN None ELSE item.offers[1].price
          [] key = "availability" ->
               IF item.offers = None THEN None
               ELSE item.offers[1].availability
          [] key = "rating" ->
               IF item.aggregateRating = None THEN None
               ELSE item.aggregateRating[1].ratingValue
          [] key = "image_url" ->
               IF item.image = None THEN None
               ELSE IF item.image[1].t = "string" THEN item.image
               ELSE IF item.image[1].t = "array" /\ item.image[1].items # <<>>
                 THEN Some(item.image[1].items[1])
               ELSE Some(JNull)
          [] OTHER -> None]

\* extract_product_from_jsonld: the first item typed "Product"
RECURSIVE FirstProduct(_)
FirstProduct(items) ==
    IF items = <<>> THEN None
    ELSE IF Head(items).type = Some(JStr("Product"))
      THEN Some(ProductOfItem(Head(items)))
    ELSE FirstProduct(Tail(items))

extract_product_from_jsonld(json_ld) == FirstProduct(json_ld.items)

\* product_data[key] == json!(null): the key is absent or holds null
IsNull(data, key) == data[key] = None \/ data[key] = Some(JNull)

\* "Merge JSON-LD data, preferring existing data"
MergeJsonLd(data, product_json) ==
    [key \in ProductDataKeys |->
        IF product_json[key] # None /\ IsNull(data, key)
          THEN product_json[key]
          ELSE data[key]]

\* the loop over the ld+json script elements, in document order; a script is
\* [valid, items]: whether serde_json parses it, and the parsed object (one
\* item) or array (its items)
RECURSIVE OverlayScripts(_, _)
OverlayScripts(data, scripts) ==
    IF scripts = <<>> THEN data
    ELSE LET script == Head(scripts)
             product_json == IF script.valid
                               THEN extract_product_from_jsonld(script)
                               ELSE None
         IN OverlayScripts(IF product_json = None THEN data
                           ELSE MergeJsonLd(data, product_json[1]),
                           Tail(scripts))

\* the response also carries "extraction_timestamp": the wall clock, left out
extract_product_data(arguments) ==
    IF arguments.html_content = None
      THEN Err("Missing html_content parameter")
    ELSE LET document == arguments.html_content[1]
         IN Ok([tool |-> "extract_product_data",
                url |-> IF arguments.url = None THEN "" ELSE arguments.url[1],
                extracted_data |->
                    OverlayScripts(SelectorData(document), document.scripts),
                extraction_method |-> "css_selectors_and_jsonld"])

\* extract_clean_text and analyze_page_structure: one parameter check, then a
\* result computed from the document
extract_clean_text(arguments) ==
    IF arguments.html_content = None
      THEN Err("Missing html_content parameter")
    ELSE Ok([tool |-> "extract_clean_text",
             extraction_method |-> "semantic_selectors"])

analyze_page_structure(arguments) ==
    IF arguments.html_content = None
      THEN Err("Missing html_content parameter")
    ELSE Ok([tool |-> "analyze_page_structure"])

VARIABLES
    mcp_pc,        \* "idle", "received", "answered"
    mcp_request,   \* the MCPRequest posted to /mcp
    mcp_response,  \* the MCPResponse sent back
    executed       \* the tool functions handle_tool_call has called, in order

mcpVars == <<mcp_pc, mcp_request, mcp_response, executed>>

ServerTools ==
    {"extract_clean_text", "extract_product_data", "extract_by_selectors",
     "analyze_page_structure"}

NoMcpRequest ==
    [jsonrpc |-> "2.0", id |-> None, method |-> "", params |-> None]

NoMcpResponse ==
    [jsonrpc |-> "", id |-> None, result |-> None, error |-> None]

\* MCPResponse { result: None, error: Some(MCPError { code, message, data: None }) }
ErrorResponse(id, code, message) ==
    [jsonrpc |-> "2.0", id |-> id, result |-> None,
     error |-> Some([code |-> code, message |-> message, data |-> None])]

\* MCPResponse { result: Some(content), error: None }
ResultResponse(id, content) ==
    [jsonrpc |-> "2.0", id |-> id, result |-> Some(content), error |-> None]

\* handle_initialize
handle_initialize(request) ==
    ResultResponse(request.id,
                   [capabilities |-> [tools |-> TRUE, resources |-> FALSE,
                                      prompts |-> FALSE],
                    serverInfo |-> "web-content-extractor"])

\* handle_tools_list
handle_tools_list(request) ==
    ResultResponse(request.id, [tools |-> ServerTools])

\* params["name"].as_str().unwrap_or("")
ToolNameOf(params) == IF params.name = None THEN "" ELSE params.name[1]

\* &params["arguments"]: Null when the member is absent, and every member
\* of Null reads as absent
ArgumentsOf(params) ==
    IF params.arguments = None THEN NoArguments ELSE params.arguments[1]

\* the `match tool_name` of handle_tool_call
RunTool(tool_name, arguments) ==
    CASE tool_name = "extract_clean_text" -> extract_clean_text(arguments)
      [] tool_name = "extract_product_data" -> extract_product_data(arguments)
      [] tool_name = "extract_by_selectors" -> extract_by_selectors(arguments)
      [] tool_name = "analyze_page_structure" ->
           analyze_page_structure(arguments)
      [] OTHER -> Err("Unknown tool: " \o tool_name)

ToolFailure_WithResult(id, error) ==
    [ErrorResponse(id, -32603, error) EXCEPT !.result = Some(error)]

\* the Err arm of `match result`
ToolFailure(id, error) == ErrorResponse(id, -32603, error)

\* handle_tool_call
handle_tool_call(request) ==
    IF request.params = None
      THEN ErrorResponse(request.id, -32602, "Invalid params")
      ELSE LET params == request.params[1]
               result == RunTool(ToolNameOf(params), ArgumentsOf(params))
           IN IF result.ok THEN ResultResponse(request.id, result.val)
              ELSE ToolFailure(request.id, result.val)

\* the tool functions handle_tool_call calls for this request
ToolsCalled(request) ==
    IF request.method = "tools/call" /\ request.params # None
       /\ ToolNameOf(request.params[1]) \in ServerTools
      THEN <<ToolNameOf(request.params[1])>>
      ELSE <<>>

MethodNotFound_AsInvalidParams(request) ==
    ErrorResponse(request.id, -32602, "Invalid params")

\* the `_` arm of handle_mcp_request
MethodNotFound(request) ==
    ErrorResponse(request.id, -32601, "Method not found")

\* the `match request.method.as_str()` of handle_mcp_request
Dispatch(request) ==
    CASE request.method = "initialize" -> handle_initialize(request)
      [] request.method = "tools/list" -> handle_tools_list(request)
      [] request.method = "tools/call" -> handle_tool_call(request)
      [] OTHER -> MethodNotFound(request)

McpIdle ==
    /\ mcp_pc = "idle"
    /\ mcp_request = NoMcpRequest
    /\ mcp_response = NoMcpResponse
    /\ executed = <<>>

McpReceive(requests) ==
    /\ mcp_pc = "received"
    /\ mcp_request \in requests
    /\ mcp_response = NoMcpResponse
    /\ executed = <<>>

\* handle_mcp_request
HandleMcpRequest ==
    /\ mcp_pc = "received"
    /\ mcp_response' = Dispatch(mcp_request)
    /\ executed' = executed \o ToolsCalled(mcp_request)
    /\ mcp_pc' = "answered"
    /\ UNCHANGED mcp_request

\* --- the requests the three tool-server specifications start from ---

Document(elements, scripts) == [elements |-> elements, scripts |-> scripts]

\* documents for extract_by_selectors: up to MaxMatches elements match ".a",
\* nothing matches any other selector
SelectorDocs ==
    {Document(".a" :> els, <<>>) : els \in SeqsUpTo(TextElements, MaxMatches)}

\* the `selectors` argument: any of the keys, each with a selector that can
\* match, one that matches nothing, an unparsable one or a non-string
SelectorMaps ==
    UNION {[keys -> {".a", ".none", "", NotAString}] :
              keys \in SUBSET SelectorKeys}

TextMatches ==
    {<<>>,
     <<[text |-> <<" ">>, src |-> None]>>,
     <<[text |-> <<"a">>, src |-> None]>>,
     <<[text |-> <<" ">>, src |-> None], [text |-> <<"b", " ">>, src |-> None]>>}

ImageMatches ==
    {<<>>,
     <<[text |-> <<>>, src |-> None]>>,
     <<[text |-> <<>>, src |-> Some(<<"u">>)]>>}

\* the JSON-LD items of the model: name, brand, offers.price and image, each
\* absent or in one of the shapes extract_product_from_jsonld tells apart
ProductItems ==
    {[EmptyItem EXCEPT !.type = Some(JStr("Product")), !.name = n,
                       !.brand = b, !.offers = o, !.image = i] :
        n \in {None, Some(JStr(<<"n">>))},
        b \in {None, Some(JStr(<<"b">>)), Some(JObj(<<JStr(<<"b">>)>>)),
               Some(JObj(<<>>))},
        o \in {None, Some([NoOffers EXCEPT !.price = Some(JNum(<<"9">>))])},
        i \in {None, Some(JStr(<<"i">>)), Some(JArr(<<JStr(<<"i">>)>>)),
               Some(JArr(<<>>))}}

ArticleItem == [EmptyItem EXCEPT !.type = Some(JStr("Article")),
                                 !.name = Some(JStr(<<"x">>))]

\* a script that does not parse, a single object, or an array whose second
\* item is the Product
ScriptContents ==
    {[valid |-> FALSE, items |-> <<>>]}
    \cup {[valid |-> TRUE, items |-> <<item>>] :
             item \in ProductItems \cup {ArticleItem}}
    \cup {[valid |-> TRUE, items |-> <<ArticleItem, item>>] :
             item \in {p \in ProductItems : p.name # None /\ p.image # None
                                            /\ p.brand = None}}

\* documents for extract_product_data
ProductDocs ==
    {Document(("#productTitle" :> t1) @@ (".product-title" :> t2)
              @@ (".brand" :> b) @@ ("#landingImage" :> img), scripts) :
        t1 \in TextMatches, t2 \in TextMatches, b \in TextMatches,
        img \in ImageMatches,
        scripts \in SeqsUpTo(ScriptContents, MaxScripts)}

ToolCall(id, name_opt, arguments_opt) ==
    [jsonrpc |-> "2.0", id |-> id, method |-> "tools/call",
     params |-> Some([name |-> name_opt, arguments |-> arguments_opt])]

BySelectorsRequests ==
    {ToolCall(Some(1), Some("extract_by_selectors"),
              Some([html_content |-> Some(document),
                    selectors |-> Some(selectors), url |-> None])) :
        document \in SelectorDocs, selectors \in SelectorMaps}

ProductDataRequests ==
    {ToolCall(Some(1), Some("extract_product_data"),
              Some([html_content |-> Some(document), selectors |-> None,
                    url |-> Some("http://shop/p")])) :
        document \in ProductDocs}

\* every method, with and without id, with params absent, without a tool
\* name, with an unknown tool name, and with arguments absent or lacking
\* members
ServerDocs ==
    {Document(".a" :> <<[text |-> <<" ", "a">>, src |-> None]>>, <<>>),
     Document(".brand" :> <<[text |-> <<"a">>, src |-> None]>>, <<>>)}

ServerArguments ==
    [html_content : {None} \cup {Some(d) : d \in ServerDocs},
     selectors : {None, Some("k1" :> ".a")},
     url : {None, Some("http://shop/p")}]

ServerRequests ==
    [jsonrpc : {"2.0"},
     id : {None, Some(1)},
     method : {"initialize", "tools/list", "tools/call", "resources/list", ""},
     params : {None} \cup
              {Some(p) : p \in
                  [name : {None, Some("nope")} \cup
                          {Some(n) : n \in ServerTools},
                   arguments : {None} \cup
                               {Some(a) : a \in ServerArguments}]}]

(***************************************************************************)
(* browser.rs: BrowserSession::interact, the WaitForElement arm.  Time is   *)
(* in milliseconds since `start`.  The driver answers a failed lookup       *)
(* within one polling interval and the sleep lasts its nominal duration.    *)
(***************************************************************************)
VARIABLES
    wfe_pc,        \* "idle", "find" (in find_element), "sleep", "done"
    timeout_ms,    \* the action's Option<u64>
    present,       \* whether the page ever holds an element for the selector
    elapsed,       \* start.elapsed().as_millis()
    wfe_ret        \* the Result interact returns, None while it runs

wfeVars == <<wfe_pc, timeout_ms, present, elapsed, wfe_ret>>

TimeoutOf_NoDefault(opt) == IF opt = None THEN 0 ELSE opt[1]

\* timeout_ms.unwrap_or(30000)
TimeoutOf(opt) == IF opt = None THEN 30000 ELSE opt[1]

\* tokio::time::sleep(Duration::from_millis(100))
PollSleep(now) == now + 100

\* how long one find_element call that finds nothing takes
FindLatencies == {0, 50, 100}

\* the timeout_ms values of the model
TimeoutChoices == {None, Some(0), Some(100), Some(200), Some(250)}

WfeIdle ==
    /\ wfe_pc = "idle"
    /\ timeout_ms = None
    /\ present = FALSE
    /\ elapsed = 0
    /\ wfe_ret = None

\* interact(&BrowserAction::WaitForElement { selector, timeout_ms }) entered:
\* `start = Instant::now()`
WfeEnter ==
    /\ wfe_pc = "find"
    /\ timeout_ms \in TimeoutChoices
    /\ present \in BOOLEAN
    /\ elapsed = 0
    /\ wfe_ret = None

\* find_element returns; on Ok the loop breaks, otherwise the elapsed time is
\* compared with the timeout
WfeFind ==
    /\ wfe_pc = "find"
    /\ \E found \in {FALSE, present}, d \in FindLatencies :
         /\ elapsed' = elapsed + d
         /\ IF found
              THEN /\ wfe_pc' = "done"
                   /\ wfe_ret' = Some(Ok("Element found"))
              ELSE IF elapsed' > TimeoutOf(timeout_ms)
                THEN /\ wfe_pc' = "done"
                     /\ wfe_ret' = Some(Err("Element not found within timeout"))
                ELSE /\ wfe_pc' = "sleep"
                     /\ wfe_ret' = None
    /\ UNCHANGED <<timeout_ms, present>>

\* the 100 ms sleep between two lookups is over
WfeSleep ==
    /\ wfe_pc = "sleep"
    /\ elapsed' = PollSleep(elapsed)
    /\ wfe_pc' = "find"
    /\ UNCHANGED <<timeout_ms, present, wfe_ret>>

(***************************************************************************)
(* browser.rs: BrowserSession::new (as create_browser_session calls it),    *)
(* BrowserSession::navigate, and the Type and Scroll arms of interact, one  *)
(* call at a time.  bs_clock is the time in milliseconds since the call     *)
(* started, bs_calls the driver calls it has issued, in order.              *)
(***************************************************************************)
VARIABLES
    bs_op,       \* "none", "new", "navigate", "type", "scroll"
    bs_pc,       \* the position inside the call, "done" once it returned
    bs_in,       \* the call's input and what the driver will answer
    bs_clock,    \* milliseconds since the call started
    bs_calls,    \* history: the driver calls issued so far
    bs_offsets,  \* Scroll: the (x, y) pair, None until computed
    bs_session_id, \* new: the `session_id` field of the BrowserSession built
    bs_ret       \* the Result the call returns, None while it runs

bsVars ==
    <<bs_op, bs_pc, bs_in, bs_clock, bs_calls, bs_offsets, bs_session_id,
      bs_ret>>

\* `tokio::time::sleep(Duration::from_millis(1000))` between the attempts
RetryDelayMs == 1000

\* `tokio::time::timeout(Duration::from_secs(30), ..)`
NavTimeoutMs == 30000

\* `tokio::time::sleep(Duration::from_millis(2000))` after goto
SettleMs == 2000

\* `pixels.unwrap_or(100)`
DefaultPixels == 100

\* `pixels: Option<i32>`
I32Max == 2147483647
I32Min == (-I32Max) - 1

DriverCall(call, ok) == [call |-> call, ok |-> ok, at |-> bs_clock]

NoInput ==
    [latency |-> 0, answer |-> "ok", direction |-> "Up", pixels |-> None]

BsIdle ==
    /\ bs_op = "none"
    /\ bs_pc = "idle"
    /\ bs_in = NoInput
    /\ bs_clock = 0
    /\ bs_calls = <<>>
    /\ bs_offsets = None
    /\ bs_session_id = None
    /\ bs_ret = None

BsEnter(op, pc, inputs) ==
    /\ bs_op = op
    /\ bs_pc = pc
    /\ bs_in \in inputs
    /\ bs_clock = 0
    /\ bs_calls = <<>>
    /\ bs_offsets = None
    /\ bs_session_id = None
    /\ bs_ret = None

BsReturn(ret) ==
    /\ bs_pc' = "done"
    /\ bs_ret' = Some(ret)

\* ---- BrowserSession::new ----

NewEnter == BsEnter("new", "launch", {NoInput})

\* `let browser = get_or_create_browser().await?;`
NewLaunch ==
    /\ bs_op = "new"
    /\ bs_pc = "launch"
    /\ \E ok \in BOOLEAN :
         /\ bs_calls' = Append(bs_calls, DriverCall("launch", ok))
         /\ IF ok
              THEN /\ bs_pc' = "first"
                   /\ UNCHANGED bs_ret
              ELSE BsReturn(Err("Failed to launch browser"))
    /\ UNCHANGED <<bs_op, bs_in, bs_clock, bs_offsets, bs_session_id>>

AfterFailedAttempt_RetryAgain(pc) == "sleep"

\* the Err arm of the first new_page sleeps and retries, the retry's error
\* is returned with `?`
AfterFailedAttempt(pc) == IF pc = "first" THEN "sleep" ELSE "done"

\* `let session_id = Uuid::new_v4().to_string();` in BrowserSession::new: the
\* draw after the one create_browser_session made for the registry key
OwnSessionId(n) == NewUuid(n + 1)

\* `browser.new_page("about:blank").await`, the first attempt or the retry
NewPage ==
    /\ bs_op = "new"
    /\ bs_pc \in {"first", "retry"}
    /\ \E ok \in BOOLEAN :
         /\ bs_calls' = Append(bs_calls, DriverCall("new_page", ok))
         /\ IF ok
              THEN /\ BsReturn(Ok("session"))
                   /\ bs_session_id' = Some(OwnSessionId(next_id))
              ELSE /\ UNCHANGED bs_session_id
                   /\ IF AfterFailedAttempt(bs_pc) = "sleep"
                        THEN /\ bs_pc' = "sleep"
                             /\ UNCHANGED bs_ret
                        ELSE BsReturn(Err("Failed to create new page after retry"))
    /\ UNCHANGED <<bs_op, bs_in, bs_clock, bs_offsets>>

\* `tokio::time::sleep(Duration::from_millis(1000)).await`
NewSleep ==
    /\ bs_op = "new"
    /\ bs_pc = "sleep"
    /\ bs_calls' = Append(bs_calls, DriverCall("sleep", TRUE))
    /\ bs_clock' = bs_clock + RetryDelayMs
    /\ bs_pc' = "retry"
    /\ UNCHANGED <<bs_op, bs_in, bs_offsets, bs_ret, bs_session_id>>

\* the registry as n earlier creates left it, no request in flight: each
\* create drew two Uuids, the first of them for the registry key
RegistryAfter(n) ==
    /\ sessions = {2 * k - 1 : k \in 1..n}
    /\ returned = {2 * k - 1 : k \in 1..n}
    /\ next_id = 2 * n + 1
    /\ lock_writer = 0
    /\ lock_readers = {}
    /\ lock_queue = <<>>
    /\ req = [r \in Slots |-> IdleReq]
    /\ resp = NoResp

\* create_browser_session after BrowserSession::new().await: the error goes
\* out through map_err and `?`, a session is inserted under the write guard
CreateSessionReturn ==
    /\ bs_op = "new"
    /\ bs_pc = "done"
    /\ bs_pc' = "returned"
    /\ IF bs_ret[1].ok
         THEN /\ sessions' = sessions \cup {NewUuid(next_id)}
              /\ returned' = returned \cup {NewUuid(next_id)}
              /\ next_id' = next_id + 2
              /\ resp' = CreateResponse(NewUuid(next_id))
         ELSE /\ resp' = IntoResponse("BrowserError", bs_ret[1].val)
              /\ UNCHANGED <<sessions, returned, next_id>>
    /\ UNCHANGED <<bs_op, bs_in, bs_clock, bs_calls, bs_offsets, bs_ret, bs_session_id>>
    /\ UNCHANGED <<lock_writer, lock_readers, lock_queue, req>>

\* ---- BrowserSession::navigate ----

\* how long page.goto takes to answer, in milliseconds
GotoLatencies == {100, 27000, 28000, 28001, 29000, 29999, 30000, 31000}

\* what page.goto answers: Ok, its own error, or nothing at all
GotoAnswers == {"ok", "err", "hang"}

NavInputs ==
    [latency : GotoLatencies, answer : GotoAnswers, direction : {"Up"},
     pixels : {None}]

NavEnter == BsEnter("navigate", "goto", NavInputs)

\* tokio::time::timeout: whether the 30 s deadline wins against an inner
\* future that would be ready at time t (both orders when they coincide)
TimeoutWins(t) ==
    IF t > NavTimeoutMs THEN {TRUE}
    ELSE IF t = NavTimeoutMs THEN {TRUE, FALSE}
    ELSE {FALSE}

\* `.map_err(|_| anyhow!("Navigation timeout after 30 seconds"))?`
NavTimedOut ==
    /\ bs_clock' = NavTimeoutMs
    /\ BsReturn(Err("Navigation timeout after 30 seconds"))

\* `self.page.goto(url).await.map_err(..)?` inside the timeout
NavGoto ==
    /\ bs_op = "navigate"
    /\ bs_pc = "goto"
    /\ bs_calls' = Append(bs_calls, DriverCall("goto", bs_in.answer = "ok"))
    /\ \E late \in (IF bs_in.answer = "hang" THEN {TRUE}
                    ELSE TimeoutWins(bs_in.latency)) :
         IF late
           THEN NavTimedOut
           ELSE /\ bs_clock' = bs_in.latency
                /\ IF bs_in.answer = "err"
                     THEN BsReturn(Err("Failed to navigate"))
                     ELSE /\ bs_pc' = "settle"
                          /\ UNCHANGED bs_ret
    /\ UNCHANGED <<bs_op, bs_in, bs_offsets, bs_session_id>>

\* `tokio::time::sleep(Duration::from_millis(2000)).await; Ok(())`, still
\* inside the timeout
NavSettle ==
    /\ bs_op = "navigate"
    /\ bs_pc = "settle"
    /\ \E late \in TimeoutWins(bs_clock + SettleMs) :
         IF late
           THEN NavTimedOut
           ELSE /\ bs_clock' = bs_clock + SettleMs
                /\ BsReturn(Ok("navigated"))
    /\ UNCHANGED <<bs_op, bs_in, bs_calls, bs_offsets, bs_session_id>>

\* ---- BrowserSession::interact, BrowserAction::Type ----

TypeEnter == BsEnter("type", "find_element", {NoInput})

TypeError_OneActionError(call) ==
    IF call = "find_element" THEN "Element not found"
    ELSE "Failed to type text"

\* the map_err of each of the three awaited calls
TypeError(call) ==
    CASE call = "find_element" -> "Element not found"
      [] call = "click" -> "Failed to focus element"
      [] call = "type_str" -> "Failed to type text"

\* the call that follows a successful one
NextTypeCall(call) ==
    CASE call = "find_element" -> "click"
      [] call = "click" -> "type_str"
      [] call = "type_str" -> "done"

\* one of `find_element(selector).await`, `element.click().await`,
\* `element.type_str(text).await`, each followed by `?`
TypeCall ==
    /\ bs_op = "type"
    /\ bs_pc \in {"find_element", "click", "type_str"}
    /\ \E ok \in BOOLEAN :
         /\ bs_calls' = Append(bs_calls, DriverCall(bs_pc, ok))
         /\ IF ~ok
              THEN BsReturn(Err(TypeError(bs_pc)))
              ELSE IF NextTypeCall(bs_pc) = "done"
                     THEN BsReturn(Ok("Text input successful"))
                     ELSE /\ bs_pc' = NextTypeCall(bs_pc)
                          /\ UNCHANGED bs_ret
    /\ UNCHANGED <<bs_op, bs_in, bs_clock, bs_offsets, bs_session_id>>

\* ---- BrowserSession::interact, BrowserAction::Scroll ----

ScrollDirections == {"Up", "Down", "Left", "Right"}

\* the i32 values of the model: the two ends of the range and values between
PixelValues == {I32Min, -100, -1, 0, 1, 100, I32Max}

ScrollInputs ==
    [latency : {0}, answer : {"ok", "err"}, direction : ScrollDirections,
     pixels : {None} \cup {Some(p) : p \in PixelValues}]

ScrollEnter == BsEnter("scroll", "offsets", ScrollInputs)

\* `-pixels` on an i32: with overflow checks the negation of i32::MIN panics
\* (None), without them it wraps to i32::MIN
NegI32(p) == IF p = I32Min THEN {None, Some(I32Min)} ELSE {Some(-p)}

\* `let pixels = pixels.unwrap_or(100);`
PixelsOf(opt) == IF opt = None THEN DefaultPixels ELSE opt[1]

\* `let (x, y) = match direction { .. }`: the pairs a build can compute,
\* None for a panic
ScrollOffsets(direction, p) ==
    CASE direction = "Up" ->
           {IF n = None THEN None ELSE Some(<<0, n[1]>>) : n \in NegI32(p)}
      [] direction = "Down" -> {Some(<<0, p>>)}
      [] direction = "Left" ->
           {IF n = None THEN None ELSE Some(<<n[1], 0>>) : n \in NegI32(p)}
      [] direction = "Right" -> {Some(<<p, 0>>)}

ScrollCompute ==
    /\ bs_op = "scroll"
    /\ bs_pc = "offsets"
    /\ \E o \in ScrollOffsets(bs_in.direction, PixelsOf(bs_in.pixels)) :
         IF o = None
           THEN /\ BsReturn(Panic)
                /\ UNCHANGED bs_offsets
           ELSE /\ bs_offsets' = o
                /\ bs_pc' = "evaluate"
                /\ UNCHANGED bs_ret
    /\ UNCHANGED <<bs_op, bs_in, bs_clock, bs_calls, bs_session_id>>

\* `self.page.evaluate(scroll_script.as_str()).await.map_err(..)?`
ScrollEvaluate ==
    /\ bs_op = "scroll"
    /\ bs_pc = "evaluate"
    /\ bs_calls' = Append(bs_calls, DriverCall("evaluate", bs_in.answer = "ok"))
    /\ IF bs_in.answer = "ok"
         THEN BsReturn(Ok("Scrolled by"))
         ELSE BsReturn(Err("Failed to scroll"))
    /\ UNCHANGED <<bs_op, bs_in, bs_clock, bs_offsets, bs_session_id>>

(***************************************************************************)
(* mcp.rs: MCPClient::process_automation_request, and lib.rs                *)
(* execute_automation_task handing the plan to execute_task_plan.  A reply  *)
(* text is a sequence over Chars as before; here "n" stands for the members *)
(* "steps" and "description" of a TaskPlan object.                          *)
(***************************************************************************)
VARIABLES
    ap_pc,       \* "idle", "call", "done", "executing"
    ap_request,  \* the AutomationRequest
    ap_config,   \* MCPClient.mode and whether MCPClient.api_key is set
    ap_http,     \* history: what the HTTP exchange with the backend gave
    ap_ret       \* the Result process_automation_request returned

apVars == <<ap_pc, ap_request, ap_config, ap_http, ap_ret>>

\* Bound of the planner model: the longest plan a reply encodes
MaxLlmPlanLen == 1

AutomationRequests ==
    [task_description : {"t1", "t2"}, target_url : {None, Some("u")}]

ClientConfigs == [mode : McpModes, api_key : BOOLEAN]

\* the fields of a BrowserAction variant the plans of the model use
NoParams == [script |-> None, duration_ms |-> None]

PlanStepOf(id, action, params) ==
    [id |-> id, action |-> action, params |-> params]

create_fallback_plan_NoScreenshot(request) ==
    [description |-> <<"Fallback plan for:", request.task_description>>,
     steps |->
       IF request.target_url = None THEN <<>>
       ELSE <<PlanStepOf("navigate", "ExecuteScript",
                  [NoParams EXCEPT !.script =
                     Some(<<"window.location.href =", request.target_url[1]>>)]),
              PlanStepOf("wait_load", "Wait",
                  [NoParams EXCEPT !.duration_ms = Some(3000)])>>]

\* mcp.rs MCPClient::create_fallback_plan
create_fallback_plan(request) ==
    [description |-> <<"Fallback plan for:", request.task_description>>,
     steps |->
       (IF request.target_url = None THEN <<>>
        ELSE <<PlanStepOf("navigate", "ExecuteScript",
                   [NoParams EXCEPT !.script =
                      Some(<<"window.location.href =", request.target_url[1]>>)]),
               PlanStepOf("wait_load", "Wait",
                   [NoParams EXCEPT !.duration_ms = Some(3000)])>>)
         \o <<PlanStepOf("screenshot", "Screenshot", NoParams)>>]

\* the TaskPlans a backend reply can encode
LlmPlans ==
    {[description |-> <<"llm">>,
      steps |-> [i \in DOMAIN p |-> PlanStepOf(p[i].id, p[i].action, NoParams)]] :
       p \in {q \in Plans : Len(q) <= MaxLlmPlanLen}}

\* ResponseMessage of the reply: the arguments of a create_task_plan tool
\* call (None when there is none, "plan" when they deserialize into a
\* TaskPlan, "bad" when they do not) and the content.  An empty `choices`
\* behaves as a reply with neither.
PlannerReplies ==
    [tool_call : {None, Some("plan"), Some("bad")},
     content : {None} \cup {Some(c) : c \in Contents}]

PlannerHttpOutcomes ==
    {Err("send failed"), Err("status not success"), Err("body not parsed")}
      \cup {Ok(r) : r \in PlannerReplies}

\* no request is sent
NoCall == Err("no request sent")

\* serde_json::from_str::<TaskPlan> succeeds on the slice: "{}" has no
\* `steps` member
TaskPlanJson == {<<"{", "n", "}">>}

\* the content branch of parse_task_plan and parse_ollama_task_plan
PlanFromContent(content_opt, encoded, request) ==
    IF content_opt = None THEN Ok(create_fallback_plan(request))
    ELSE LET content == content_opt[1]
             start == Find(content, "{")
             end == RFind(content, "}")
         IN IF start # 0 /\ end # 0
              THEN IF SlicePanics(start, end) THEN Panic
                   ELSE IF SubSeq(content, start, end) \in TaskPlanJson
                          THEN Ok(encoded)
                          ELSE Ok(create_fallback_plan(request))
              ELSE Ok(create_fallback_plan(request))

\* mcp.rs parse_ollama_task_plan: the tool calls are not looked at
parse_ollama_task_plan(reply, encoded, request) ==
    PlanFromContent(reply.content, encoded, request)

\* mcp.rs parse_task_plan
parse_task_plan(reply, encoded, request) ==
    IF reply.tool_call = Some("plan") THEN Ok(encoded)
    ELSE IF reply.tool_call = Some("bad")
           THEN Err("Failed to parse task plan")
           ELSE PlanFromContent(reply.content, encoded, request)

\* mcp.rs process_with_local_ollama
process_with_local_ollama(http, encoded, request) ==
    IF http.ok THEN parse_ollama_task_plan(http.val, encoded, request)
    ELSE IF http.val = "body not parsed"
           THEN parse_ollama_task_plan([tool_call |-> None, content |-> None],
                                       encoded, request)
           ELSE Ok(create_fallback_plan(request))

\* mcp.rs process_with_cloud_api
process_with_cloud_api(api_key, http, encoded, request) ==
    IF ~api_key THEN Ok(create_fallback_plan(request))
    ELSE IF ~http.ok THEN http
         ELSE parse_task_plan(http.val, encoded, request)

\* mcp.rs process_automation_request
process_automation_request(config, http, encoded, request) ==
    IF config.mode = "Local"
      THEN process_with_local_ollama(http, encoded, request)
      ELSE process_with_cloud_api(config.api_key, http, encoded, request)

ApIdle ==
    /\ ap_pc = "idle"
    /\ ap_request = [task_description |-> "", target_url |-> None]
    /\ ap_config = [mode |-> "Local", api_key |-> FALSE]
    /\ ap_http = NoCall
    /\ ap_ret = None

\* execute_automation_task is entered
AutomationEnter ==
    /\ ap_pc = "call"
    /\ ap_request \in AutomationRequests
    /\ ap_config \in ClientConfigs
    /\ ap_http = NoCall
    /\ ap_ret = None

\* `process_automation_request(&request).await` returns
PlannerCall ==
    /\ ap_pc = "call"
    /\ \E http \in PlannerHttpOutcomes, encoded \in LlmPlans :
         /\ ap_http' = IF ap_config.mode = "Cloud" /\ ~ap_config.api_key
                         THEN NoCall ELSE http
         /\ ap_ret' = Some(process_automation_request(ap_config, http, encoded,
                                                      ap_request))
    /\ ap_pc' = "done"
    /\ UNCHANGED <<ap_request, ap_config>>

\* execute_automation_task: the plan goes to session.execute_task_plan
AutomationExecute ==
    /\ ap_pc = "done"
    /\ ap_ret[1].ok
    /\ ap_pc' = "executing"
    /\ plan' = ap_ret[1].val.steps
    /\ step_i' = 1
    /\ plan_pc' = "loop"
    /\ UNCHANGED <<results, handed, plan_ret>>
    /\ UNCHANGED <<ap_request, ap_config, ap_http, ap_ret>>

(***************************************************************************)
(* types.rs: BrowserAction and ScrollDirection with their derived           *)
(* Serialize / Deserialize, `#[serde(tag = "type", content = "params")]`.   *)
(* A Rust value is a record of its variant and fields; a JSON object is a   *)
(* function from its keys to JSON scalars [t, s, n].                        *)
(***************************************************************************)
VARIABLES
    sd_pc,      \* "idle", "serialize", "deserialize", "done"
    sd_action,  \* the BrowserAction being serialized, NoAction when the JSON
                \* text comes from a client
    sd_json,    \* the JSON document
    sd_back     \* the Result of deserializing sd_json

sdVars == <<sd_pc, sd_action, sd_json, sd_back>>

JsonString(x) == [t |-> "string", s |-> x, n |-> 0]
JsonNumber(k) == [t |-> "number", s |-> "", n |-> k]
JsonNull == [t |-> "null", s |-> "", n |-> 0]

SelectorStrings == {"", "#a"}

\* the values of the optional and numeric fields the model draws
DurationValues == {0, 3000, I32Max}
TimeoutValues == {None, Some(0), Some(30000)}
PixelOptions == {None} \cup {Some(p) : p \in PixelValues}

\* enum BrowserAction
BrowserActions ==
    [variant : {"Click"}, selector : SelectorStrings]
      \cup [variant : {"Type"}, selector : SelectorStrings, text : SelectorStrings]
      \cup [variant : {"Wait"}, duration_ms : DurationValues]
      \cup [variant : {"WaitForElement"}, selector : SelectorStrings,
            timeout_ms : TimeoutValues]
      \cup [variant : {"Scroll"}, direction : ScrollDirections,
            pixels : PixelOptions]
      \cup [variant : {"Screenshot", "GetPageSource"}]
      \cup [variant : {"ExecuteScript"}, script : SelectorStrings]

NoAction == [variant |-> "none"]

\* Serialize for Option<u64> / Option<i32>: None is written as null
OptionToJson(opt) == IF opt = None THEN JsonNull ELSE JsonNumber(opt[1])

\* Serialize for BrowserAction: {"type": variant, "params": {fields}}, a unit
\* variant has no "params"
Serialize(a) ==
    CASE a.variant = "Click" ->
           [type |-> JsonString("Click"),
            params |-> [selector |-> JsonString(a.selector)]]
      [] a.variant = "Type" ->
           [type |-> JsonString("Type"),
            params |-> [selector |-> JsonString(a.selector),
                        text |-> JsonString(a.text)]]
      [] a.variant = "Wait" ->
           [type |-> JsonString("Wait"),
            params |-> [duration_ms |-> JsonNumber(a.duration_ms)]]
      [] a.variant = "WaitForElement" ->
           [type |-> JsonString("WaitForElement"),
            params |-> [selector |-> JsonString(a.selector),
                        timeout_ms |-> OptionToJson(a.timeout_ms)]]
      [] a.variant = "Scroll" ->
           [type |-> JsonString("Scroll"),
            params |-> [direction |-> JsonString(a.direction),
                        pixels |-> OptionToJson(a.pixels)]]
      [] a.variant = "ExecuteScript" ->
           [type |-> JsonString("ExecuteScript"),
            params |-> [script |-> JsonString(a.script)]]
      [] OTHER -> [type |-> JsonString(a.variant)]

HasString(obj, key) == key \in DOMAIN obj /\ obj[key].t = "string"

\* a required integer field within lo..hi
HasNumber(obj, key, lo, hi) ==
    /\ key \in DOMAIN obj
    /\ obj[key].t = "number"
    /\ obj[key].n >= lo
    /\ obj[key].n <= hi

\* an Option field is well-formed when the key is missing, null, or an
\* integer within lo..hi
OptionOk(obj, key, lo, hi) ==
    \/ key \notin DOMAIN obj
    \/ obj[key].t = "null"
    \/ HasNumber(obj, key, lo, hi)

OptionFromJson_NullIsZero(obj, key) ==
    IF key \notin DOMAIN obj THEN None
    ELSE Some(obj[key].n)

\* Deserialize for Option<u64> / Option<i32>: a missing key and null give None
OptionFromJson(obj, key) ==
    IF key \notin DOMAIN obj \/ obj[key].t = "null" THEN None
    ELSE Some(obj[key].n)

DeserializeError == Err("invalid BrowserAction")

\* Deserialize for BrowserAction
Deserialize(j) ==
    IF ~HasString(j, "type") THEN DeserializeError
    ELSE LET tag == j.type.s
         IN IF tag \in {"Screenshot", "GetPageSource"}
              THEN Ok([variant |-> tag])
            ELSE IF "params" \notin DOMAIN j THEN DeserializeError
            ELSE LET ps == j.params
                 IN CASE tag = "Click" /\ HasString(ps, "selector") ->
                           Ok([variant |-> tag, selector |-> ps.selector.s])
                      [] tag = "Type" /\ HasString(ps, "selector")
                           /\ HasString(ps, "text") ->
                           Ok([variant |-> tag, selector |-> ps.selector.s,
                               text |-> ps.text.s])
                      [] tag = "Wait" /\ HasNumber(ps, "duration_ms", 0, I32Max) ->
                           Ok([variant |-> tag, duration_ms |-> ps.duration_ms.n])
                      [] tag = "WaitForElement" /\ HasString(ps, "selector")
                           /\ OptionOk(ps, "timeout_ms", 0, I32Max) ->
                           Ok([variant |-> tag, selector |-> ps.selector.s,
                               timeout_ms |-> OptionFromJson(ps, "timeout_ms")])
                      [] tag = "Scroll" /\ HasString(ps, "direction")
                           /\ ps.direction.s \in ScrollDirections
                           /\ OptionOk(ps, "pixels", I32Min, I32Max) ->
                           Ok([variant |-> tag, direction |-> ps.direction.s,
                               pixels |-> OptionFromJson(ps, "pixels")])
                      [] tag = "ExecuteScript" /\ HasString(ps, "script") ->
                           Ok([variant |-> tag, script |-> ps.script.s])
                      [] OTHER -> DeserializeError

\* request bodies a client writes by hand
ClientJson ==
    {[type |-> JsonString("Screenshot")],
     [type |-> JsonString("Click")],
     [type |-> JsonString("Hover"), params |-> [selector |-> JsonString("#a")]],
     [type |-> JsonString("WaitForElement"),
      params |-> [selector |-> JsonString("#a")]],
     [type |-> JsonString("Scroll"), params |-> [direction |-> JsonString("Up")]],
     [type |-> JsonString("Scroll"),
      params |-> [direction |-> JsonString("Sideways"), pixels |-> JsonNull]],
     [type |-> JsonString("Wait"), params |-> [duration_ms |-> JsonNumber(-1)]],
     [params |-> [selector |-> JsonString("#a")]]}

SdIdle ==
    /\ sd_pc = "idle"
    /\ sd_action = NoAction
    /\ sd_json = [type |-> JsonNull]
    /\ sd_back = None

\* a BrowserAction is about to be written, or a client's body to be read
SdEnter ==
    /\ sd_back = None
    /\ \/ /\ sd_pc = "serialize"
          /\ sd_action \in BrowserActions
          /\ sd_json = [type |-> JsonNull]
       \/ /\ sd_pc = "deserialize"
          /\ sd_action = NoAction
          /\ sd_json \in ClientJson

\* serde_json::to_string(&action)
SdSerialize ==
    /\ sd_pc = "serialize"
    /\ sd_json' = Serialize(sd_action)
    /\ sd_pc' = "deserialize"
    /\ UNCHANGED <<sd_action, sd_back>>

\* serde_json::from_str::<BrowserAction>(&json)
SdDeserialize ==
    /\ sd_pc = "deserialize"
    /\ sd_back' = Some(Deserialize(sd_json))
    /\ sd_pc' = "done"
    /\ UNCHANGED <<sd_action, sd_json>>

(***************************************************************************)
(* llama_client.rs execute_mcp_tool: the argument string of a tool call is  *)
(* parsed, html_content and url are filled in, and the call is posted to    *)
(* the tool server.  A JSON value is [kind, members]; members is a function *)
(* from the keys of an object to its member values, and "null" among the    *)
(* member values stands for a JSON null.                                    *)
(***************************************************************************)
VARIABLES
    em_pc,        \* "idle" | "parse" | "inject" | "send" | "done"
    em_text,      \* tool_call.function.arguments
    em_args,      \* `arguments`, then `final_arguments`
    em_sent,      \* history: params.arguments of the posted request
    em_ret        \* the value execute_mcp_tool returns

emVars == <<em_pc, em_text, em_args, em_sent, em_ret>>

ArgumentKeys == {"html_content", "url", "selector"}

MemberValues == {"model value", "null"}

JsonObject(members) == [kind |-> "object", members |-> members]

JsonScalar(kind) == [kind |-> kind, members |-> <<>>]

JsonObjects ==
    {JsonObject(m) : m \in UNION {[ks -> MemberValues] : ks \in SUBSET ArgumentKeys}}

\* the texts the model can emit: not JSON at all, an object, or JSON of
\* another type
ArgumentTexts ==
    {JsonScalar(k) : k \in {"malformed", "null", "array", "string", "number", "bool"}}
      \cup JsonObjects

\* the page of the run
RunHtml == "page html"
RunUrl == "page url"

\* serde_json::from_str::<Value>(..).unwrap_or_else(|_| json!({}))
ParseArguments(text) ==
    IF text.kind = "malformed" THEN JsonObject(<<>>) ELSE text

\* Value::get(key): Some only for a member of an object
JsonGet(value, key) ==
    IF value.kind = "object" /\ key \in DOMAIN value.members
      THEN Some(value.members[key])
      ELSE None

\* `value[key] = x` (IndexMut<&str> for Value): null becomes an object, an
\* object takes the member, any other value panics
IndexAssign(value, key, x) ==
    IF value.kind = "null" THEN Ok(JsonObject((key :> x)))
    ELSE IF value.kind = "object"
           THEN Ok(JsonObject([k \in DOMAIN value.members \cup {key} |->
                                 IF k = key THEN x ELSE value.members[k]]))
           ELSE Panic

FillIfAbsent_Overwrite(value, key, x) == IndexAssign(value, key, x)

\* `if final_arguments.get(key).is_none() { final_arguments[key] = json!(x); }`
FillIfAbsent(value, key, x) ==
    IF JsonGet(value, key) = None THEN IndexAssign(value, key, x) ELSE Ok(value)

EmIdle ==
    /\ em_pc = "idle"
    /\ em_text = JsonScalar("null")
    /\ em_args = JsonScalar("null")
    /\ em_sent = None
    /\ em_ret = None

\* execute_mcp_tool is entered with a tool call of the model
ExecEnter ==
    /\ em_pc = "parse"
    /\ em_text \in ArgumentTexts
    /\ em_args = JsonScalar("null")
    /\ em_sent = None
    /\ em_ret = None

\* `let arguments: Value = serde_json::from_str(..).unwrap_or_else(..)`
ExecParse ==
    /\ em_pc = "parse"
    /\ em_args' = ParseArguments(em_text)
    /\ em_pc' = "inject"
    /\ UNCHANGED <<em_text, em_sent, em_ret>>

\* the two `if ... is_none()` blocks
ExecInject ==
    /\ em_pc = "inject"
    /\ LET withHtml == FillIfAbsent(em_args, "html_content", RunHtml)
           withUrl == IF withHtml.ok
                        THEN FillIfAbsent(withHtml.val, "url", RunUrl)
                        ELSE Panic
       IN IF withUrl.ok
            THEN /\ em_args' = withUrl.val
                 /\ em_pc' = "send"
                 /\ UNCHANGED em_ret
            ELSE /\ em_ret' = Some(Panic)
                 /\ em_pc' = "done"
                 /\ UNCHANGED em_args
    /\ UNCHANGED <<em_text, em_sent>>

\* the POST of the tools/call request and the reading of its answer
ExecSend ==
    /\ em_pc = "send"
    /\ em_sent' = Some(em_args)
    /\ \E out \in ToolOutcomes : em_ret' = Some(out)
    /\ em_pc' = "done"
    /\ UNCHANGED <<em_text, em_args>>

(***************************************************************************)
(* browser.rs get_or_create_browser: BROWSER_SINGLETON is a tokio OnceCell. *)
(* get_or_try_init returns the value when the cell is set; otherwise it     *)
(* waits for the cell's one semaphore permit, runs the initializer under    *)
(* it, and either stores the value (closing the semaphore, which wakes the  *)
(* waiters to read the value) or gives the permit back with the error.      *)
(* Each creator is one task inside BrowserSession::new.                     *)
(***************************************************************************)
VARIABLES
    oc_value,     \* the cell: None, or Some(id of the launched Browser)
    oc_permit,    \* the creator that holds the permit, 0 when it is free
    oc_pc,        \* per creator: "idle" | "check" | "acquire" | "launch" | "done"
    oc_got,       \* per creator: what get_or_create_browser returned
    oc_launches   \* history: Browser::launch calls that succeeded

ocVars == <<oc_value, oc_permit, oc_pc, oc_got, oc_launches>>

\* Bound of the singleton model: concurrent BrowserSession::new calls
NCreators == 4

Creators == 1..NCreators

PermitAvailable_Any(holder) == TRUE

\* Semaphore::acquire on the cell's single permit
PermitAvailable(holder) == holder = 0

OcIdle ==
    /\ oc_value = None
    /\ oc_permit = 0
    /\ oc_pc = [t \in Creators |-> "idle"]
    /\ oc_got = [t \in Creators |-> None]
    /\ oc_launches = 0

\* NCreators session creations have called get_or_create_browser, the cell
\* is empty
OcEnter ==
    /\ oc_value = None
    /\ oc_permit = 0
    /\ oc_pc = [t \in Creators |-> "check"]
    /\ oc_got = [t \in Creators |-> None]
    /\ oc_launches = 0

\* `.map(|browser| browser.clone())` on the cell's value
OcReturnValue(t) ==
    /\ oc_got' = [oc_got EXCEPT ![t] = Some(Ok(oc_value[1]))]
    /\ oc_pc' = [oc_pc EXCEPT ![t] = "done"]

\* get_or_try_init: the fast path when the cell is already set
OcCheck(t) ==
    /\ oc_pc[t] = "check"
    /\ IF oc_value # None
         THEN OcReturnValue(t)
         ELSE /\ oc_pc' = [oc_pc EXCEPT ![t] = "acquire"]
              /\ UNCHANGED oc_got
    /\ UNCHANGED <<oc_value, oc_permit, oc_launches>>

\* get_or_try_init: `self.semaphore.acquire().await` returns, with the permit
\* or, the semaphore being closed, with the cell set
OcAcquire(t) ==
    /\ oc_pc[t] = "acquire"
    /\ IF oc_value # None
         THEN /\ OcReturnValue(t)
              /\ UNCHANGED oc_permit
         ELSE /\ PermitAvailable(oc_permit)
              /\ oc_permit' = t
              /\ oc_pc' = [oc_pc EXCEPT ![t] = "launch"]
              /\ UNCHANGED oc_got
    /\ UNCHANGED <<oc_value, oc_launches>>

\* the initializer: Browser::launch(..).await, then set_value or the error
OcLaunch(t) ==
    /\ oc_pc[t] = "launch"
    /\ \E ok \in BOOLEAN :
         IF ok
           THEN /\ oc_value' = Some(oc_launches + 1)
                /\ oc_launches' = oc_launches + 1
                /\ oc_got' = [oc_got EXCEPT ![t] = Some(Ok(oc_launches + 1))]
           ELSE /\ oc_got' =
                     [oc_got EXCEPT ![t] = Some(Err("Failed to launch browser"))]
                /\ UNCHANGED <<oc_value, oc_launches>>
    /\ oc_permit' = 0
    /\ oc_pc' = [oc_pc EXCEPT ![t] = "done"]

vars ==
    <<planVars, loopVars, srvVars, mcpVars, wfeVars, bsVars, apVars, sdVars,
      emVars, ocVars>>

PlanInit == PlanEnter /\ LoopIdle /\ SrvIdle /\ McpIdle /\ WfeIdle /\ BsIdle /\ ApIdle /\ SdIdle
    /\ EmIdle
    /\ OcIdle

PlanNext == (PlanStep \/ PlanReturn) /\ UNCHANGED <<loopVars, srvVars, mcpVars, wfeVars, bsVars, apVars, sdVars, emVars, ocVars>>

SpecPlan == PlanInit /\ [][PlanNext]_vars

LoopInit ==
    (LlamaEnter \/ McpEnter) /\ PlanIdle /\ SrvIdle /\ McpIdle /\ WfeIdle /\ BsIdle /\ ApIdle /\ SdIdle
    /\ EmIdle
    /\ OcIdle

LoopNext ==
    \/ GetMcpTools /\ UNCHANGED <<planVars, srvVars, mcpVars, wfeVars, bsVars, apVars, sdVars, emVars, ocVars>>
    \/ CallLlama /\ UNCHANGED <<planVars, srvVars, mcpVars, wfeVars, bsVars, apVars, sdVars, emVars, ocVars>>
    \/ ExecuteMcpTool /\ UNCHANGED <<planVars, srvVars, mcpVars, wfeVars, bsVars, apVars, sdVars, emVars, ocVars>>
    \/ LoopExhausted /\ UNCHANGED <<planVars, srvVars, mcpVars, wfeVars, bsVars, apVars, sdVars, emVars, ocVars>>
    \/ McpExtract /\ UNCHANGED <<planVars, srvVars, mcpVars, wfeVars, bsVars, apVars, sdVars, emVars, ocVars>>

SpecLoop == LoopInit /\ [][LoopNext]_vars

\* every backend and tool-server call is answered or fails
FairSpecLoop == SpecLoop /\ WF_vars(LoopNext)

Init == SrvInit /\ PlanIdle /\ LoopIdle /\ McpIdle /\ WfeIdle /\ BsIdle /\ ApIdle /\ SdIdle
    /\ EmIdle
    /\ OcIdle

Next ==
    \/ \E r \in Slots : Arrive(r) /\ UNCHANGED <<planVars, loopVars, mcpVars, wfeVars, bsVars, apVars, sdVars, emVars, ocVars>>
    \/ \E r \in Slots : NewDone(r) /\ UNCHANGED <<planVars, loopVars, mcpVars, wfeVars, bsVars, apVars, sdVars, emVars, ocVars>>
    \/ \E r \in Slots : PlanningDone(r) /\ UNCHANGED <<planVars, loopVars, mcpVars, wfeVars, bsVars, apVars, sdVars, emVars, ocVars>>
    \/ \E r \in Slots : Acquire(r) /\ UNCHANGED <<planVars, loopVars, mcpVars, wfeVars, bsVars, apVars, sdVars, emVars, ocVars>>
    \/ \E r \in Slots : ExecDone(r) /\ UNCHANGED <<planVars, loopVars, mcpVars, wfeVars, bsVars, apVars, sdVars, emVars, ocVars>>
    \/ \E r \in Slots : TempDone(r) /\ UNCHANGED <<planVars, loopVars, mcpVars, wfeVars, bsVars, apVars, sdVars, emVars, ocVars>>
    \/ \E r \in Slots : LlmDone(r) /\ UNCHANGED <<planVars, loopVars, mcpVars, wfeVars, bsVars, apVars, sdVars, emVars, ocVars>>

Spec == Init /\ [][Next]_vars

McpNext ==
    HandleMcpRequest /\ UNCHANGED <<planVars, loopVars, srvVars, wfeVars, bsVars, apVars, sdVars, emVars, ocVars>>

McpServerInit ==
    McpReceive(ServerRequests) /\ PlanIdle /\ LoopIdle /\ SrvIdle
    /\ WfeIdle /\ BsIdle /\ ApIdle /\ SdIdle
    /\ EmIdle
    /\ OcIdle

SpecMcpServer == McpServerInit /\ [][McpNext]_vars

BySelectorsInit ==
    McpReceive(BySelectorsRequests) /\ PlanIdle /\ LoopIdle /\ SrvIdle
    /\ WfeIdle /\ BsIdle /\ ApIdle /\ SdIdle
    /\ EmIdle
    /\ OcIdle

SpecBySelectors == BySelectorsInit /\ [][McpNext]_vars

ProductDataInit ==
    McpReceive(ProductDataRequests) /\ PlanIdle /\ LoopIdle /\ SrvIdle
    /\ WfeIdle /\ BsIdle /\ ApIdle /\ SdIdle
    /\ EmIdle
    /\ OcIdle

SpecProductData == ProductDataInit /\ [][McpNext]_vars

WfeInit == WfeEnter /\ PlanIdle /\ LoopIdle /\ SrvIdle /\ McpIdle /\ BsIdle /\ ApIdle /\ SdIdle
    /\ EmIdle
    /\ OcIdle

WfeNext ==
    \/ WfeFind /\ UNCHANGED <<planVars, loopVars, srvVars, mcpVars, bsVars, apVars, sdVars, emVars, ocVars>>
    \/ WfeSleep /\ UNCHANGED <<planVars, loopVars, srvVars, mcpVars, bsVars, apVars, sdVars, emVars, ocVars>>

SpecWfe == WfeInit /\ [][WfeNext]_vars

\* every find_element call and every sleep returns
FairSpecWfe == SpecWfe /\ WF_vars(WfeNext)

BrowserInit ==
    /\ PlanIdle /\ LoopIdle /\ McpIdle /\ WfeIdle /\ ApIdle /\ SdIdle
    /\ \/ NewEnter /\ \E n \in 0..1 : RegistryAfter(n)
       \/ (NavEnter \/ TypeEnter \/ ScrollEnter) /\ SrvIdle
    /\ EmIdle
    /\ OcIdle

BrowserNext ==
    \/ NewLaunch /\ UNCHANGED <<planVars, loopVars, srvVars, mcpVars, wfeVars, apVars, sdVars, emVars, ocVars>>
    \/ NewPage /\ UNCHANGED <<planVars, loopVars, srvVars, mcpVars, wfeVars, apVars, sdVars, emVars, ocVars>>
    \/ NewSleep /\ UNCHANGED <<planVars, loopVars, srvVars, mcpVars, wfeVars, apVars, sdVars, emVars, ocVars>>
    \/ CreateSessionReturn /\ UNCHANGED <<planVars, loopVars, mcpVars, wfeVars, apVars, sdVars, emVars, ocVars>>
    \/ NavGoto /\ UNCHANGED <<planVars, loopVars, srvVars, mcpVars, wfeVars, apVars, sdVars, emVars, ocVars>>
    \/ NavSettle /\ UNCHANGED <<planVars, loopVars, srvVars, mcpVars, wfeVars, apVars, sdVars, emVars, ocVars>>
    \/ TypeCall /\ UNCHANGED <<planVars, loopVars, srvVars, mcpVars, wfeVars, apVars, sdVars, emVars, ocVars>>
    \/ ScrollCompute /\ UNCHANGED <<planVars, loopVars, srvVars, mcpVars, wfeVars, apVars, sdVars, emVars, ocVars>>
    \/ ScrollEvaluate /\ UNCHANGED <<planVars, loopVars, srvVars, mcpVars, wfeVars, apVars, sdVars, emVars, ocVars>>

SpecBrowser == BrowserInit /\ [][BrowserNext]_vars

PlannerInit ==
    AutomationEnter /\ PlanIdle /\ LoopIdle /\ SrvIdle /\ McpIdle /\ WfeIdle
    /\ BsIdle /\ SdIdle
    /\ EmIdle
    /\ OcIdle

PlannerNext ==
    \/ PlannerCall /\ UNCHANGED <<planVars, loopVars, srvVars, mcpVars, wfeVars, bsVars, sdVars, emVars, ocVars>>
    \/ AutomationExecute /\ UNCHANGED <<loopVars, srvVars, mcpVars, wfeVars, bsVars, sdVars, emVars, ocVars>>
    \/ PlanStep /\ UNCHANGED <<loopVars, srvVars, mcpVars, wfeVars, bsVars, apVars, sdVars, emVars, ocVars>>
    \/ PlanReturn /\ UNCHANGED <<loopVars, srvVars, mcpVars, wfeVars, bsVars, apVars, sdVars, emVars, ocVars>>

SpecPlanner == PlannerInit /\ [][PlannerNext]_vars

SerdeInit ==
    SdEnter /\ PlanIdle /\ LoopIdle /\ SrvIdle /\ McpIdle /\ WfeIdle
    /\ BsIdle /\ ApIdle
    /\ EmIdle
    /\ OcIdle

SerdeNext ==
    \/ SdSerialize /\ UNCHANGED <<planVars, loopVars, srvVars, mcpVars, wfeVars, bsVars, apVars, emVars, ocVars>>
    \/ SdDeserialize /\ UNCHANGED <<planVars, loopVars, srvVars, mcpVars, wfeVars, bsVars, apVars, emVars, ocVars>>

SpecSerde == SerdeInit /\ [][SerdeNext]_vars

ToolInit ==
    ExecEnter /\ PlanIdle /\ LoopIdle /\ SrvIdle /\ McpIdle /\ WfeIdle
    /\ BsIdle /\ ApIdle /\ SdIdle
    /\ OcIdle

ToolNext ==
    \/ ExecParse /\ UNCHANGED <<planVars, loopVars, srvVars, mcpVars, wfeVars, bsVars, apVars, sdVars, ocVars>>
    \/ ExecInject /\ UNCHANGED <<planVars, loopVars, srvVars, mcpVars, wfeVars, bsVars, apVars, sdVars, ocVars>>
    \/ ExecSend /\ UNCHANGED <<planVars, loopVars, srvVars, mcpVars, wfeVars, bsVars, apVars, sdVars, ocVars>>

SpecTool == ToolInit /\ [][ToolNext]_vars

SingletonInit ==
    OcEnter /\ PlanIdle /\ LoopIdle /\ SrvIdle /\ McpIdle /\ WfeIdle
    /\ BsIdle /\ ApIdle /\ SdIdle /\ EmIdle

SingletonNext ==
    \/ \E t \in Creators : OcCheck(t) /\ UNCHANGED <<planVars, loopVars, srvVars, mcpVars, wfeVars, bsVars, apVars, sdVars, emVars>>
    \/ \E t \in Creators : OcAcquire(t) /\ UNCHANGED <<planVars, loopVars, srvVars, mcpVars, wfeVars, bsVars, apVars, sdVars, emVars>>
    \/ \E t \in Creators : OcLaunch(t) /\ UNCHANGED <<planVars, loopVars, srvVars, mcpVars, wfeVars, bsVars, apVars, sdVars, emVars>>

SpecSingleton == SingletonInit /\ [][SingletonNext]_vars

----
\* Claims about execute_task_plan

\* C1: execute_task_plan on an n-step plan (n >= 0) returns exactly n
\* TaskResults whatever the steps' outcomes, and the i-th result's step_id is
\* the id of the i-th step.
C1_OneResultPerStepInOrder ==
    plan_pc = "returned" =>
        /\ plan_ret.ok
        /\ Len(plan_ret.val) = Len(plan)
        /\ \A i \in 1..Len(plan) : plan_ret.val[i].step_id = plan[i].id

\* a returned 3-step plan whose first step failed and whose ids repeat
C1_Witness ==
    /\ plan_pc = "returned"
    /\ Len(plan) = 3
    /\ plan[1].id = plan[3].id
    /\ plan[1].id # plan[2].id
    /\ ~plan_ret.val[1].success
    /\ plan_ret.val[3].success

\* C2: a failed step never prevents a later step from running: every step is
\* handed to interact exactly once, in plan order, and execute_task_plan
\* itself returns Ok even when steps failed.
C2_EveryStepRunsOnce ==
    /\ \A k \in 1..Len(handed) : handed[k] = k
    /\ Len(handed) <= Len(plan)
    /\ plan_pc = "returned" => (plan_ret.ok /\ Len(handed) = Len(plan))

\* every step of a 3-step plan failed or the first two did, and the run
\* still handed over the third step
C2_Witness ==
    /\ plan_pc = "returned"
    /\ Len(plan) = 3
    /\ ~results[1].success
    /\ ~results[2].success
    /\ handed = <<1, 2, 3>>

\* C3: every TaskResult has exactly one of output and error populated:
\* success is true exactly when output is present and error absent, false
\* exactly when error is present and output absent.
C3_ExactlyOneOfOutputError ==
    \A i \in 1..Len(results) :
        LET r == results[i]
        IN /\ (r.output # None) # (r.error # None)
           /\ r.success <=> (r.output # None /\ r.error = None)
           /\ ~r.success <=> (r.error # None /\ r.output = None)

\* a run that has produced both a success result and a failure result
C3_Witness ==
    /\ \E i \in 1..Len(results) : results[i].success /\ results[i].output # None
    /\ \E i \in 1..Len(results) : ~results[i].success /\ results[i].error # None

----
\* Claims about the tool-calling loop

\* C4: a product-extraction run that reached the LLM backend always ends by
\* returning a ProductInfo, never an error: not when the backend is
\* unreachable or answers a non-success status, not when a tool call fails,
\* not when the reply cannot be parsed.
C4_NeverReturnsError ==
    (loop_pc = "done" /\ llm_calls >= 1) => loop_ret.ok

\* C5: one run calls the LLM backend at most 5 times, whatever the backend
\* answers, and the run terminates.
C5_AtMostFiveCallsAndTerminates ==
    /\ [](llm_calls <= 5)
    /\ <>(loop_pc = "done")

\* a finished run that made five LLM calls, each answered with tool calls
C5_Witness ==
    /\ loop_pc = "done"
    /\ llm_calls = 5
    /\ conversation_turns = 5
    /\ Len(tool_log) >= 5

DiagnosticTexts ==
    {"Unable to extract product name with MCP tools",
     "Product information extraction failed using Llama + MCP",
     "Fallback mode - MCP extraction failed"}

\* C6: when the turn bound is used up without a terminal response the run
\* returns the fixed fallback ProductInfo: the same value on every such run,
\* whose fields are absent except those that carry diagnostic text (the
\* placeholder name and description, and raw_llm_response); no product data
\* field (price, availability, brand, rating, image_url, raw_data) is set.
C6_ExhaustionReturnsFixedFallback ==
    (loop_pc = "done" /\ conversation_turns >= max_turns) =>
        /\ loop_ret.ok
        /\ loop_ret.val = create_fallback_product_info
        /\ \A f \in {"price", "availability", "brand", "rating", "image_url",
                     "raw_data"} : loop_ret.val[f] = None
        /\ \A f \in ProductFields :
             loop_ret.val[f] # None => loop_ret.val[f][1] \in DiagnosticTexts
        /\ loop_ret.val.raw_llm_response # None

\* a run whose five turns all carried tool calls, all dispatched successfully
C6_Witness ==
    /\ loop_pc = "done"
    /\ conversation_turns = max_turns
    /\ llm_calls = max_turns
    /\ Len(messages) >= 2 + 2 * max_turns
    /\ loop_ret.ok

----
\* Claims about the HTTP handlers and the session registry

MutatingKinds == {"navigate", "interact", "automation", "product"}

\* C7: interact calls against two distinct sessions never block on each
\* other: while an interact is in progress on session A, an interact for a
\* registered session B that is next in line is never held back by A's guard.
C7_DistinctSessionsNeverBlock ==
    \A a, b \in Slots :
        ( /\ req[a].kind = "interact" /\ req[a].pc = "exec"
          /\ req[b].kind = "interact" /\ req[b].pc = "waiting"
          /\ req[b].sid \in sessions
          /\ req[b].sid # req[a].sid
          /\ lock_queue = <<b>> )
        => CanGrant(LockMode(req[b].kind))

\* C8: two mutating operations on the same session (navigate, interact,
\* task-plan execution, product extraction with a session id) never overlap:
\* at most one of them is executing on the session's page, and while a task
\* plan is executing on a session no other request, not even an extract, is
\* executing on that session, so nothing interleaves with the plan's steps.
C8_SameSessionMutationsNeverOverlap ==
    \A a, b \in Slots :
        ( /\ a # b
          /\ req[a].pc = "exec" /\ req[b].pc = "exec"
          /\ req[a].sid = req[b].sid )
        => /\ req[a].kind \notin MutatingKinds
           /\ req[b].kind \notin MutatingKinds

\* a task plan is between its steps on a session while an interact for the
\* same session waits for the guard
C8_Witness ==
    \E a, b \in Slots :
        /\ req[a].kind = "automation" /\ req[a].pc = "exec"
        /\ req[a].left = 1
        /\ lock_writer = a
        /\ req[b].kind = "interact" /\ req[b].pc = "waiting"
        /\ req[b].sid = req[a].sid
        /\ req[b].sid \in sessions

\* the position of slot r in the queue q, 0 when it is not there
QueuePos(q, r) ==
    IF \E i \in 1..Len(q) : q[i] = r
      THEN CHOOSE i \in 1..Len(q) : q[i] = r
      ELSE 0

\* C9: within one session, actions are executed in the order their calls
\* arrived: a request leaves the wait for the guard, to run its action, only
\* when no request for the same session started waiting before it and is
\* still waiting.
C9_ExecutedInArrivalOrder ==
    [][ \A r \in Slots :
          (req[r].pc = "waiting" /\ req'[r].pc # "waiting") =>
              \A i \in 1..Len(lock_queue) :
                  i < QueuePos(lock_queue, r) =>
                      req[lock_queue[i]].sid # req[r].sid ]_vars

\* a navigate is executing on a session while an interact for the same
\* session is queued behind it
C9_Witness ==
    \E a, b \in Slots :
        /\ req[a].kind = "navigate" /\ req[a].pc = "exec"
        /\ req[b].kind = "interact" /\ req[b].pc = "waiting"
        /\ req[a].sid = req[b].sid
        /\ lock_queue = <<b>>

LookupKinds == {"navigate", "interact", "extract", "status", "product"}

\* C10: a navigate, interact, extract, status or product-extraction request
\* whose session id is not in the registry when the handler looks it up is
\* answered SessionNotFound (HTTP 404, body status 404, a message containing
\* "Session"); the handler starts no browser action, keeps no guard and
\* leaves the registry unchanged.
C10_UnknownSessionIsNotFound ==
    [][ \A r \in Slots :
          ( /\ req[r].pc = "waiting"
            /\ req[r].kind \in LookupKinds
            /\ req[r].sid \notin sessions
            /\ req'[r].pc # "waiting" )
          => /\ resp'.status = 404
             /\ resp'.body_status = 404
             /\ resp'.error # None
             /\ \E i \in 1..Len(resp'.error[1]) : resp'.error[1][i] = "Session"
             /\ req'[r].pc = "idle"
             /\ \A q \in Slots : req'[q].pc = "exec" => req[q].pc = "exec"
             /\ lock_writer' = lock_writer
             /\ lock_readers' = lock_readers
             /\ sessions' = sessions ]_vars

\* a 404 for the never-issued id has just been sent while another request
\* holds a read guard: only a handler that takes the read guard, status or
\* extract, can have been past the lock at that moment
C10_Witness ==
    /\ resp.status = 404
    /\ resp.body_status = 404
    /\ resp.error = Some(<<"Session", ToString(Ghost), "not found">>)
    /\ lock_readers # {}
    /\ sessions # {}

\* C11: under any interleaving of create, delete and bulk-cleanup requests
\* every registry entry is one a create returned, a successful create returns
\* an identifier no create returned before and adds exactly that one entry,
\* leaving every other entry as it was, and an entry leaves the registry only
\* through a delete of its id or a bulk cleanup.
C11_CreatesAreDistinctAndKept ==
    /\ [](sessions \subseteq returned)
    /\ [][ /\ \A r \in Slots :
               ( /\ req[r].kind = "create"
                 /\ req[r].pc = "waiting"
                 /\ req'[r].pc = "idle" )
               => /\ resp'.status = 200
                  /\ resp'.session_id = Some(req[r].sid)
                  /\ req[r].sid \notin returned
                  /\ sessions' = sessions \cup {req[r].sid}
                  /\ Cardinality(sessions') = Cardinality(sessions) + 1
           /\ ~(sessions \subseteq sessions') =>
                \E r \in Slots :
                    /\ req[r].pc = "waiting" /\ req'[r].pc = "idle"
                    /\ \/ req[r].kind = "cleanup"
                       \/ /\ req[r].kind = "delete"
                          /\ sessions \ sessions' = {req[r].sid} ]_vars

\* two creates finished in the opposite order of their id draws: the later
\* draw is registered already and the earlier one has just been added and
\* returned
C11_Witness ==
    /\ resp.session_id = Some(1)
    /\ sessions = {1, 2}
    /\ returned = {1, 2}

\* C12: deleting a registered id removes exactly that entry, keeps every
\* other entry and answers success; deleting an id that is not registered
\* answers SessionNotFound and leaves the registry as it was; an id that was
\* removed is never registered again, and a status, navigate or interact
\* request that looks such an id up is answered SessionNotFound.
C12_DeleteRemovesExactlyOne ==
    [][ /\ \A r \in Slots :
            ( /\ req[r].kind = "delete"
              /\ req[r].pc = "waiting"
              /\ req'[r].pc = "idle" )
            => IF req[r].sid \in sessions
                 THEN /\ sessions' = sessions \ {req[r].sid}
                      /\ resp'.status = 200
                      /\ resp'.error = None
                 ELSE /\ sessions' = sessions
                      /\ resp' = SessionNotFound(req[r].sid)
                      /\ resp'.status = 404
        /\ \A id \in returned \ sessions : id \notin sessions'
        /\ \A r \in Slots :
            ( /\ req[r].kind \in {"status", "navigate", "interact"}
              /\ req[r].pc = "waiting"
              /\ req[r].sid \in returned \ sessions
              /\ req'[r].pc # "waiting" )
            => /\ resp' = SessionNotFound(req[r].sid)
               /\ resp'.status = 404
               /\ req'[r].pc = "idle"
               /\ sessions' = sessions ]_vars

\* session 1 was created and removed, session 2 is still registered, and a
\* request naming session 1 has just been answered SessionNotFound
C12_Witness ==
    /\ returned = {1, 2}
    /\ sessions = {2}
    /\ resp = SessionNotFound(1)

\* C13: the active-session count the health endpoint reports is the number
\* of registry entries at the moment it answers, and it changes nothing; bulk
\* cleanup reports the number of entries that were present when it ran and
\* leaves the registry empty; both under any interleaving with creates and
\* deletes.
C13_CountsMatchRegistry ==
    [][ \A r \in Slots :
          (req[r].pc = "waiting" /\ req'[r].pc = "idle") =>
              /\ req[r].kind = "health" =>
                   /\ resp'.status = 200
                   /\ resp'.count = Some(Cardinality(sessions))
                   /\ sessions' = sessions
              /\ req[r].kind = "cleanup" =>
                   /\ resp'.status = 200
                   /\ resp'.count = Some(Cardinality(sessions))
                   /\ sessions' = {} ]_vars

\* a bulk cleanup has just cleared the one registered session and reported
\* 1 while a create is still waiting for the guard
C13_Witness ==
    /\ resp.count = Some(1)
    /\ sessions = {}
    /\ \E r \in Slots : req[r].kind = "create" /\ req[r].pc = "waiting"

\* C14: a product-extraction request without session_id never changes the
\* registry, whether it succeeds or fails at any stage: no step of such a
\* request alters the set of registered sessions, the request never waits for
\* or holds the registry guard, and the id of its temporary session is never
\* a registry key nor the id any other request names.
C14_TemporarySessionLeavesRegistryAlone ==
    /\ [](\A r \in Slots : req[r].kind = "product_temp" =>
            /\ req[r].sid \notin sessions
            /\ req[r].sid \notin returned
            /\ \A q \in Slots \ {r} : req[q].sid # req[r].sid
            /\ lock_writer # r
            /\ r \notin lock_readers
            /\ \A i \in 1..Len(lock_queue) : lock_queue[i] # r)
    /\ [][ \A r \in Slots :
             ( /\ req'[r] # req[r]
               /\ "product_temp" \in {req[r].kind, req'[r].kind} )
             => sessions' = sessions ]_vars

\* the temporary session has been created and both page calls on it have
\* returned while another session is registered and an interact is executing
\* on that one
C14_Witness ==
    \E r, q \in Slots :
        /\ req[r].kind = "product_temp" /\ req[r].pc = "llm"
        /\ req[q].kind = "interact" /\ req[q].pc = "exec"
        /\ sessions = {req[q].sid}

----
\* Claims about the JSON-RPC tool server

\* C15: a tools/call request whose params are missing or malformed (no params
\* at all, no tool name, or no arguments) is answered with error code -32602
\* and no result, and no tool function is called.
C15_MalformedParamsAreInvalidParams ==
    ( /\ mcp_pc = "answered"
      /\ mcp_request.method = "tools/call"
      /\ \/ mcp_request.params = None
         \/ mcp_request.params[1].name = None
         \/ mcp_request.params[1].arguments = None )
    => /\ mcp_response.error # None
       /\ mcp_response.error[1].code = -32602
       /\ mcp_response.result = None
       /\ executed = <<>>

\* C16: a request whose method is none of initialize, tools/list and
\* tools/call is answered with error code -32601 and no result, and no tool
\* function is called, whatever its params are.
C16_UnknownMethodIsMethodNotFound ==
    ( /\ mcp_pc = "answered"
      /\ mcp_request.method \notin {"initialize", "tools/list", "tools/call"} )
    => /\ mcp_response.error # None
       /\ mcp_response.error[1].code = -32601
       /\ mcp_response.result = None
       /\ mcp_response.id = mcp_request.id
       /\ executed = <<>>

\* a request that would be a complete extract_by_selectors call, sent under
\* the method "resources/list", has been answered
C16_Witness ==
    /\ mcp_pc = "answered"
    /\ mcp_request.method = "resources/list"
    /\ mcp_request.params # None
    /\ mcp_request.params[1].name = Some("extract_by_selectors")
    /\ mcp_request.params[1].arguments # None
    /\ mcp_request.params[1].arguments[1].html_content # None
    /\ mcp_request.params[1].arguments[1].selectors # None
    /\ mcp_response.error # None

\* C17: when the tool a tools/call names fails, the response carries error
\* code -32603 with the tool's own error message and no result; when it
\* succeeds, the response carries the tool's result and no error.
C17_ToolFailureIsInternalError ==
    ( /\ mcp_pc = "answered"
      /\ mcp_request.method = "tools/call"
      /\ mcp_request.params # None )
    => LET outcome == RunTool(ToolNameOf(mcp_request.params[1]),
                              ArgumentsOf(mcp_request.params[1]))
       IN IF outcome.ok
            THEN /\ mcp_response.result = Some(outcome.val)
                 /\ mcp_response.error = None
            ELSE /\ mcp_response.error # None
                 /\ mcp_response.error[1].code = -32603
                 /\ mcp_response.error[1].message = outcome.val
                 /\ mcp_response.result = None

\* extract_by_selectors was called with a document but without selectors and
\* its error message came back
C17_Witness ==
    /\ mcp_pc = "answered"
    /\ executed = <<"extract_by_selectors">>
    /\ mcp_response.result = None
    /\ mcp_response.error # None
    /\ mcp_response.error[1].message = "Missing selectors parameter"

\* C18: extract_by_selectors returns, for each supplied key whose selector
\* parses: a scalar string (the trimmed text) when the selector matches
\* exactly one element, the array of the trimmed texts in document order when
\* it matches several, and no entry for the key when it matches none.
C18_ScalarArrayOrAbsent ==
    mcp_pc = "answered" =>
        LET arguments == mcp_request.params[1].arguments[1]
            document == arguments.html_content[1]
            selectors == arguments.selectors[1]
            entries == mcp_response.result[1].results
        IN \A key \in DOMAIN selectors :
             SelectorParses(AsStrOrEmpty(selectors[key])) =>
               LET els == Select(document, selectors[key])
                   trimmed == [i \in 1..Len(els) |-> Trim(els[i].text)]
               IN CASE Len(els) = 0 -> entries[key] = None
                    [] Len(els) = 1 ->
                         entries[key] =
                             Some([is_array |-> FALSE, items |-> trimmed])
                    [] OTHER ->
                         entries[key] =
                             Some([is_array |-> TRUE, items |-> trimmed])

\* the value a Product-typed JSON-LD block of the document gives for a field
\* of the selector table; extract_product_from_jsonld files the image under
\* "image_url"
JsonLdValue(document, field) ==
    OverlayScripts([key \in ProductDataKeys |-> None], document.scripts)
        [IF field = "image" THEN "image_url" ELSE field]

\* C19: in extract_product_data, for each of the fields name, price,
\* description, availability, brand, rating and image, the reported value is
\* the first non-empty selector result when there is one and otherwise the
\* value from a Product-typed JSON-LD block; a JSON-LD value neither
\* overwrites nor duplicates a field a selector filled.
C19_SelectorsTakePrecedenceOverJsonLd ==
    mcp_pc = "answered" =>
        LET document == mcp_request.params[1].arguments[1].html_content[1]
            data == mcp_response.result[1].extracted_data
            by_selector == SelectorData(document)
        IN \A i \in 1..Len(ProductSelectorFields) :
             LET field == ProductSelectorFields[i]
             IN IF by_selector[field] # None
                  THEN /\ data[field] = by_selector[field]
                       /\ \A key \in ProductDataKeys \ {field} :
                            data[key] = None
                            \/ data[key] # JsonLdValue(document, field)
                            \/ \E j \in 1..Len(ProductSelectorFields) :
                                 /\ ProductSelectorFields[j] = key
                                 /\ by_selector[key] # None
                  ELSE data[field] = JsonLdValue(document, field)

----
\* Claims about BrowserSession::interact

----
\* Claims about BrowserSession::new and navigate

\* the positions of the new_page attempts among the driver calls
PageAttempts == {i \in DOMAIN bs_calls : bs_calls[i].call = "new_page"}

\* C21: creating a session attempts page creation at most twice; a failed
\* first attempt is followed by exactly one retry, made after the fixed delay
\* of 1000 ms; when the retry fails too, creation fails, no further attempt
\* is made and the registry stays as it was.
C21_AtMostTwoPageAttempts ==
    /\ [](bs_op = "new" =>
            /\ Cardinality(PageAttempts) <= 2
            /\ \A i \in PageAttempts :
                 (~bs_calls[i].ok /\ bs_pc \in {"done", "returned"}
                    /\ \A j \in PageAttempts : j >= i) =>
                   /\ Len(bs_calls) = i + 2
                   /\ bs_calls[i + 1].call = "sleep"
                   /\ bs_calls[i + 2].call = "new_page"
                   /\ bs_calls[i + 2].at = bs_calls[i].at + RetryDelayMs
            /\ (bs_pc \in {"done", "returned"}
                  /\ Cardinality(PageAttempts) = 2
                  /\ \A i \in PageAttempts : ~bs_calls[i].ok) =>
                 (bs_ret # None /\ ~bs_ret[1].ok))
    /\ [][(bs_op = "new" /\ bs_ret # None /\ ~bs_ret[1].ok) =>
            (bs_calls' = bs_calls /\ sessions' = sessions)]_vars

\* both attempts failed and create_browser_session has answered with the
\* error, the registry still holding the one earlier session
C21_Witness ==
    /\ bs_op = "new"
    /\ bs_pc = "returned"
    /\ Len(bs_calls) = 4
    /\ ~bs_calls[2].ok
    /\ ~bs_calls[4].ok
    /\ bs_clock = RetryDelayMs
    /\ sessions = {1}
    /\ resp.status = 400

NavTimeoutError == Err("Navigation timeout after 30 seconds")

\* C22: navigate returns no later than 30 s after it starts; it returns the
\* timeout error when the driver has not answered within 30 s, and a
\* navigation whose driver call completes within 30 s is reported as
\* completed (Ok, or the driver's own error), never as a timeout.
C22_NavigateTimesOutOnlyOnSlowDriver ==
    (bs_op = "navigate" /\ bs_pc = "done") =>
        /\ bs_clock <= NavTimeoutMs
        /\ (bs_in.answer = "hang" \/ bs_in.latency > NavTimeoutMs) =>
             bs_ret = Some(NavTimeoutError)
        /\ (bs_in.answer = "ok" /\ bs_in.latency < NavTimeoutMs) =>
             bs_ret = Some(Ok("navigated"))
        /\ (bs_in.answer = "err" /\ bs_in.latency < NavTimeoutMs) =>
             bs_ret = Some(Err("Failed to navigate"))

----
\* Claims about BrowserSession::interact, Type and Scroll

TypeOrder == <<"find_element", "click", "type_str">>

TypeErrorTexts ==
    <<"Element not found", "Failed to focus element", "Failed to type text">>

\* C23: Type resolves the selector, clicks to focus and inputs the text, in
\* that order, and stops at the first failure: no click after a failed
\* resolution, no input after a failed click; the three failures are
\* reported as three different errors.
C23_TypeStopsAtFirstFailure ==
    bs_op = "type" =>
        /\ Len(bs_calls) <= 3
        /\ \A i \in DOMAIN bs_calls :
             /\ bs_calls[i].call = TypeOrder[i]
             /\ i < Len(bs_calls) => bs_calls[i].ok
        /\ bs_pc = "done" =>
             /\ Len(bs_calls) >= 1
             /\ bs_ret # None
             /\ bs_ret[1].ok = bs_calls[Len(bs_calls)].ok
             /\ bs_ret[1].ok => Len(bs_calls) = 3
             /\ ~bs_ret[1].ok =>
                  /\ bs_ret[1].val = TypeErrorTexts[Len(bs_calls)]
                  /\ \A k \in 1..3 :
                       k # Len(bs_calls) => bs_ret[1].val # TypeErrorTexts[k]

\* the selector resolved, the focusing click failed, nothing was typed
C23_Witness ==
    /\ bs_op = "type"
    /\ bs_pc = "done"
    /\ Len(bs_calls) = 2
    /\ bs_calls[1].ok
    /\ bs_calls[2].call = "click"
    /\ ~bs_calls[2].ok
    /\ bs_ret = Some(Err("Failed to focus element"))

\* y is the negation of the i32 p (no i32 is the negation of i32::MIN)
IsNegationOf(y, p) == p # I32Min /\ y = -p

\* C24: for every direction and every 32-bit pixel value p (100 when pixels
\* is omitted) Scroll computes Up -> (0, -p), Down -> (0, p),
\* Left -> (-p, 0), Right -> (p, 0), no pixel value makes that computation
\* fail, and Scroll succeeds unless the injected script fails.
C24_ScrollOffsetsForEveryPixelValue ==
    (bs_op = "scroll" /\ bs_pc # "offsets") =>
        LET p == IF bs_in.pixels = None THEN 100 ELSE bs_in.pixels[1]
        IN /\ bs_ret # Some(Panic)
           /\ bs_offsets # None
           /\ LET x == bs_offsets[1][1]
                  y == bs_offsets[1][2]
              IN CASE bs_in.direction = "Up" -> x = 0 /\ IsNegationOf(y, p)
                   [] bs_in.direction = "Down" -> x = 0 /\ y = p
                   [] bs_in.direction = "Left" -> IsNegationOf(x, p) /\ y = 0
                   [] bs_in.direction = "Right" -> x = p /\ y = 0
           /\ bs_pc = "done" => bs_ret[1].ok = (bs_in.answer = "ok")

----
\* Claims about automation planning

\* a reply text that holds a TaskPlan object somewhere
HoldsPlanText(c) ==
    \E i \in 1..Len(c), j \in 1..Len(c) : i <= j /\ SubSeq(c, i, j) \in TaskPlanJson

\* the exchange with the backend gave nothing a TaskPlan can be parsed from:
\* the backend was unreachable, answered a non-success status or an
\* unreadable body, or its reply carries no plan
NoPlanFromBackend ==
    \/ ~ap_http.ok
    \/ /\ ap_http.ok
       /\ ap_http.val.tool_call # Some("plan")
       /\ \/ ap_http.val.content = None
          \/ ~HoldsPlanText(ap_http.val.content[1])

\* C25: automation planning never fails its caller: when the backend is
\* unreachable, answers a non-success status or returns a reply from which no
\* TaskPlan can be parsed, process_automation_request returns the fallback
\* plan, not an error, in local and in cloud mode.
C25_PlanningNeverFails ==
    ap_pc \in {"done", "executing"} =>
        /\ ap_ret[1].ok
        /\ NoPlanFromBackend => ap_ret[1].val = create_fallback_plan(ap_request)

\* process_automation_request returned a plan although the backend gave none:
\* the plan is the fallback plan
FellBack ==
    /\ ap_pc \in {"done", "executing"}
    /\ ap_ret[1].ok
    /\ NoPlanFromBackend

ScreenshotStep == PlanStepOf("screenshot", "Screenshot", NoParams)

\* C26 as stated: the fallback plan is navigate, wait 3000 ms, screenshot for
\* every automation request; it has at least one step, its last step is a
\* Screenshot, and executing it yields a non-empty result list.
C26_FallbackIsNavigateWaitScreenshot ==
    FellBack =>
        LET steps == ap_ret[1].val.steps
        IN /\ Len(steps) = 3
           /\ steps[1].id = "navigate"
           /\ steps[2].action = "Wait"
           /\ steps[2].params.duration_ms = Some(3000)
           /\ steps[3] = ScreenshotStep
           /\ (ap_pc = "executing" /\ plan_pc = "returned") =>
                (plan_ret.ok /\ Len(plan_ret.val) >= 1)

\* C26, amended: the fallback plan is navigate (a script that sets
\* window.location.href to the target URL), wait 3000 ms, screenshot when the
\* request has a target_url, and the single step screenshot when it has none;
\* it depends only on the request, has at least one step, its last step is a
\* Screenshot, and executing it yields one result per step, so a non-empty
\* result list.
C26_FallbackDependsOnTargetUrl ==
    FellBack =>
        LET steps == ap_ret[1].val.steps
            url == ap_request.target_url
        IN /\ ap_ret[1].val.description =
                <<"Fallback plan for:", ap_request.task_description>>
           /\ url = None => steps = <<ScreenshotStep>>
           /\ url # None =>
                /\ Len(steps) = 3
                /\ steps[1] =
                     PlanStepOf("navigate", "ExecuteScript",
                         [script |-> Some(<<"window.location.href =", url[1]>>),
                          duration_ms |-> None])
                /\ steps[2] =
                     PlanStepOf("wait_load", "Wait",
                         [script |-> None, duration_ms |-> Some(3000)])
                /\ steps[3] = ScreenshotStep
           /\ Len(steps) >= 1
           /\ steps[Len(steps)].action = "Screenshot"
           /\ (ap_pc = "executing" /\ plan_pc = "returned") =>
                /\ plan_ret.ok
                /\ Len(plan_ret.val) = Len(steps)
                /\ Len(plan_ret.val) >= 1

\* the backend was unreachable in local mode, the request named no URL, and
\* the one-step fallback plan has been executed
C26_Witness ==
    /\ FellBack
    /\ ap_config.mode = "Local"
    /\ ap_http = Err("send failed")
    /\ ap_request.target_url = None
    /\ ap_pc = "executing"
    /\ plan_pc = "returned"
    /\ Len(plan_ret.val) = 1
    /\ plan_ret.val[1].step_id = "screenshot"

----
\* Further claims about product extraction

----
\* Claims about the wire format of BrowserAction

\* C28: for every BrowserAction value (all eight variants, all four scroll
\* directions, optional fields present or absent) serializing and then
\* deserializing gives a value equal to the original.
C28_SerializeDeserializeRoundTrip ==
    (sd_pc = "done" /\ sd_action # NoAction) =>
        /\ sd_back[1].ok
        /\ sd_back[1].val = sd_action

\* a Scroll left without pixels went through JSON as "pixels": null
C28_Witness ==
    /\ sd_pc = "done"
    /\ sd_action = [variant |-> "Scroll", direction |-> "Left", pixels |-> None]
    /\ sd_json.params.pixels = JsonNull
    /\ sd_back = Some(Ok(sd_action))

\* the step is a call_llama_with_tools that was answered with a response
LlmAnswered ==
    /\ loop_pc = "llm"
    /\ llm_calls' = llm_calls + 1
    /\ llm_reply' # None
    /\ llm_reply'[1].ok

\* C29: a response without tool calls but with content ends the tool loop at
\* that turn with a ProductInfo parsed from that content: from the JSON object
\* between the first '{' and the last '}' when there is one, else by the
\* line-oriented parser; no further LLM call or tool call is made.
C29_ContentEndsLoopWithParsedProduct ==
    /\ [][(/\ LlmAnswered
           /\ llm_reply'[1].val.tool_calls = None
           /\ llm_reply'[1].val.content # None) =>
            LET content == llm_reply'[1].val.content[1]
                start == Find(content, "{")
                end == RFind(content, "}")
                object ==
                    IF start # 0 /\ start <= end
                      THEN SubSeq(content, start, end) ELSE <<>>
            IN /\ loop_pc' = "done"
               /\ tool_log' = tool_log
               /\ loop_ret'.ok
               /\ loop_ret'.val.raw_llm_response = Some(content)
               /\ IF object \in ValidJson
                    THEN loop_ret'.val.name = JsonName(object)
                    ELSE loop_ret'.val = parse_text_response(content)]_vars
    /\ [][loop_pc = "done" =>
            (llm_calls' = llm_calls /\ tool_log' = tool_log)]_vars

\* C30: a response with neither tool calls nor content does not end the run:
\* the loop goes on to another LLM call as long as the turn bound allows.
C30_EmptyResponseContinuesLoop ==
    [][(/\ LlmAnswered
        /\ llm_reply'[1].val.tool_calls = None
        /\ llm_reply'[1].val.content = None
        /\ conversation_turns' < max_turns) =>
         (loop_pc' = "llm" /\ loop_ret' = None)]_vars

\* the tool calls of the response being processed
CurCalls == cur_resp.tool_calls[1]

\* the assistant message pushed for the j-th tool call of the response
AssistantFor(response, j) ==
    Message("assistant",
            IF response.content = None THEN <<>> ELSE response.content[1],
            Some(<<response.tool_calls[1][j]>>))

\* while the tool calls of a response are processed, the calls before the
\* current one have been sent once each, in order, and each has left an
\* assistant message followed by a tool-role message
ProcessedSoFar ==
    loop_pc = "tools" =>
      LET sent == tc_i - 1
          logBase == Len(tool_log) - sent
          msgBase == Len(messages) - 2 * sent
      IN /\ cur_resp.tool_calls # None
         /\ tc_i \in 1..Len(CurCalls)
         /\ logBase >= 0
         /\ msgBase >= 2
         /\ \A j \in 1..sent :
              /\ tool_log[logBase + j] = [name |-> CurCalls[j], pos |-> j]
              /\ messages[msgBase + 2 * j - 1] = AssistantFor(cur_resp, j)
              /\ messages[msgBase + 2 * j].role = "tool"
              /\ messages[msgBase + 2 * j].tool_calls = None

IsPrefix(a, b) == Len(a) <= Len(b) /\ SubSeq(b, 1, Len(a)) = a

\* C32: within one run the conversation only grows at its end, so the
\* conversation passed to an LLM call extends the one passed to the call
\* before it, and whenever an LLM call can be made the conversation starts
\* with the system prompt followed by the user prompt.
C32_ConversationAppendOnly ==
    /\ [][IsPrefix(messages, messages')]_vars
    /\ [](loop_pc \in {"llm", "tools"} =>
            /\ Len(messages) >= 2
            /\ messages[1].role = "system" /\ messages[1].content = <<"s">>
            /\ messages[2].role = "user" /\ messages[2].content = <<"u">>)
    /\ [][(loop_pc = "llm" /\ llm_calls' = llm_calls + 1) =>
            IsPrefix(SeedMessages, messages)]_vars

C32_Witness ==
    /\ llm_calls = 2
    /\ llm_reply # None
    /\ Len(messages) = 6
    /\ messages[3].role = "assistant"
    /\ messages[4].role = "tool"

\* the run is LlamaClient::extract_product_information (not the one-request
\* MCPClient path)
InToolLoopRun == loop_pc \in {"manifest", "llm", "tools"} \/ manifest_fetches > 0

\* C33: the tool manifest is fetched exactly once per run and before the first
\* LLM call; a failed fetch ends the run at once, with no LLM call, no tool
\* call and no second fetch.
C33_ManifestFetchedOnceAndFatal ==
    /\ [](manifest_fetches <= 1)
    /\ []((llm_calls > 0 /\ InToolLoopRun) => manifest_fetches = 1)
    /\ [](loop_pc = "manifest" =>
            (manifest_fetches = 0 /\ llm_calls = 0 /\ tool_log = <<>>))
    /\ []((loop_pc = "done" /\ InToolLoopRun) => manifest_fetches = 1)
    /\ [][(loop_pc = "manifest" /\ manifest_fetches' = 1
           /\ loop_pc' # "llm") =>
            /\ loop_pc' = "done"
            /\ loop_ret' # None /\ ~loop_ret'.ok
            /\ llm_calls' = 0
            /\ tool_log' = <<>>]_vars
    /\ [][loop_pc = "done" =>
            (llm_calls' = llm_calls /\ tool_log' = tool_log
             /\ manifest_fetches' = manifest_fetches /\ loop_pc' = "done")]_vars

C33_Witness ==
    /\ loop_pc = "done"
    /\ manifest_fetches = 1
    /\ llm_calls = 0
    /\ tool_log = <<>>
    /\ ~loop_ret.ok
    /\ loop_ret.val = "Failed to fetch MCP manifest"

\* the value the model supplied for a key of the tool-call arguments
Supplied(key) == JsonGet(ParseArguments(em_text), key)

\* C34: the arguments posted to the tool server always hold html_content and
\* url: a value the model supplied for either key is passed on unchanged, a
\* key it left out holds the run's page HTML or URL, and the model's other
\* members are kept.
C34_PostedArgumentsHoldHtmlAndUrl ==
    em_sent # None =>
      LET posted == em_sent[1]
      IN /\ posted.kind = "object"
         /\ {"html_content", "url"} \subseteq DOMAIN posted.members
         /\ posted.members["html_content"] =
              IF Supplied("html_content") # None
                THEN Supplied("html_content")[1] ELSE RunHtml
         /\ posted.members["url"] =
              IF Supplied("url") # None THEN Supplied("url")[1] ELSE RunUrl
         /\ Supplied("selector") # None =>
              /\ "selector" \in DOMAIN posted.members
              /\ posted.members["selector"] = Supplied("selector")[1]

\* the model gave html_content and left url out
C34_Witness ==
    /\ em_sent # None
    /\ em_text = JsonObject(("html_content" :> "model value"))
    /\ em_sent[1].members["html_content"] = "model value"
    /\ em_sent[1].members["url"] = RunUrl

\* C35: whatever argument string the model emits (malformed JSON, a JSON
\* object, or JSON that is not an object), execute_mcp_tool ends in a tool
\* result or an error value handed back to the loop and never aborts.
C35_NoArgumentStringAborts ==
    em_pc = "done" => (em_ret # None /\ em_ret[1] # Panic)

\* the run ended in parse_final_product_response: the last LLM response had
\* content and no tool calls
EndedInFinalParse ==
    /\ loop_pc = "done"
    /\ llm_reply # None
    /\ llm_reply[1].ok
    /\ llm_reply[1].val.tool_calls = None
    /\ llm_reply[1].val.content # None

\* C36: parse_final_product_response (and MCPClient's parser of an Ollama
\* answer) returns a ProductInfo for every content string, also when the
\* first '{' comes after the last '}', when only one kind of brace occurs and
\* for the empty string; it never fails or aborts.
C36_FinalParseIsTotal ==
    /\ EndedInFinalParse =>
         /\ loop_ret.ok
         /\ DOMAIN loop_ret.val = ProductFields
    /\ (loop_pc = "done" /\ manifest_fetches = 0) => loop_ret # Panic

\* a create has inserted its session and answered
CreateInserted ==
    /\ bs_op = "new"
    /\ bs_pc = "returned"
    /\ bs_ret[1].ok

\* C37: the identifier under which a session is stored in the registry, which
\* is the one create returns to the client, equals the session's own
\* generated session_id.
C37_RegistryKeyIsOwnSessionId ==
    CreateInserted =>
      /\ resp.session_id # None
      /\ resp.session_id[1] \in sessions
      /\ bs_session_id = resp.session_id

\* slot r is awaiting a page call on its session (navigate, interact, extract,
\* a step of a task plan, or the page calls of product extraction)
InFlightOn(r, id) == req[r].pc = "exec" /\ req[r].sid = id

\* C38: a session is never removed from the registry, by delete or by bulk
\* cleanup, while a navigate, interact, extract or task-plan execution is in
\* flight on it: an operation that found its session runs against a session
\* that stays registered until the operation has finished.
C38_NoRemovalUnderInFlightOperation ==
    /\ [](\A r \in Slots : req[r].pc = "exec" => req[r].sid \in sessions)
    /\ [][\A id \in sessions \ sessions' :
            \A r \in Slots : ~InFlightOn(r, id)]_vars
    /\ [][\A r \in Slots :
            (req[r].pc = "exec" /\ req'[r].pc = "exec") =>
              (req'[r].sid = req[r].sid /\ req[r].sid \in sessions')]_vars

\* a delete or cleanup waits for the guard while an operation is in flight on
\* a registered session
C38_Witness ==
    \E r1, r2 \in Slots :
      /\ InFlightOn(r1, req[r1].sid)
      /\ req[r1].kind \in {"navigate", "interact", "extract", "automation"}
      /\ req[r2].pc = "waiting"
      /\ req[r2].kind \in {"delete", "cleanup"}
      /\ req[r2].kind = "delete" => req[r2].sid = req[r1].sid

\* slot r holds a guard of the registry lock
HoldsGuard(r) == lock_writer = r \/ r \in lock_readers

\* C39: no handler holds the registry lock while an LLM backend call or a
\* session creation is in flight: the automation handler has its plan before
\* it asks for the lock, the product-extraction handler has dropped the lock
\* before the extraction conversation starts, and create holds the lock only
\* for the insert.
C39_NoGuardAcrossLlmOrCreation ==
    /\ [](\A r \in Slots :
            req[r].pc \in {"planning", "llm", "new", "temp"} =>
              (~HoldsGuard(r) /\ \A i \in 1..Len(lock_queue) : lock_queue[i] # r))
    /\ [](\A r \in Slots :
            (HoldsGuard(r) /\ req[r].pc # "idle") =>
              (req[r].pc = "exec" /\ ~Registers(req[r].kind)))

\* a product extraction is in its LLM call while another request holds the
\* write guard
C39_Witness ==
    \E r1, r2 \in Slots :
      /\ req[r1].kind = "product"
      /\ req[r1].pc = "llm"
      /\ lock_writer = r2
      /\ r2 # r1

\* the Browser instances the creators were given
BrowsersGiven ==
    {oc_got[t][1].val : t \in {u \in Creators : oc_got[u] # None /\ oc_got[u][1].ok}}

\* C40: under any interleaving of concurrent session creations the shared
\* browser is launched successfully at most once and every session is given
\* that one instance; a failed launch leaves the cell empty and the permit
\* free, so that a later creation launches again.
C40_BrowserLaunchedOnceAndShared ==
    /\ [](oc_launches <= 1)
    /\ [](Cardinality(BrowsersGiven) <= 1)
    /\ [](BrowsersGiven # {} => oc_value = Some(CHOOSE b \in BrowsersGiven : TRUE))
    /\ [](Cardinality({t \in Creators : oc_pc[t] = "launch"}) <= 1)
    /\ [][\A t \in Creators :
            (oc_pc[t] = "launch" /\ oc_got'[t] # None /\ ~oc_got'[t][1].ok) =>
              (oc_value' = None /\ oc_permit' = 0 /\ oc_launches' = oc_launches)]_vars
    /\ [](\A t \in Creators :
            (oc_pc[t] = "acquire" /\ oc_value = None /\ oc_permit = 0) =>
              ENABLED OcAcquire(t))

\* the first creator's launch failed, a later creator launched again and two
\* creators hold the one browser
C40_Witness ==
    /\ \E t \in Creators : oc_got[t] # None /\ ~oc_got[t][1].ok
    /\ oc_launches = 1
    /\ Cardinality({t \in Creators : oc_got[t] # None /\ oc_got[t][1].ok}) = 2

====
